---- MODULE Spec2Model ----
(***************************************************************************)
(* A model of the Omne validator node (omne-validator, Rust).              *)
(*                                                                         *)
(*   start_validator (main.rs)  -> ValidatorNode::new (validator.rs)       *)
(*     -> PoVERAValidator::new / P2PNetwork::new / RpcServer::new          *)
(*     -> ValidatorNode::start: three spawned tasks                        *)
(*          consensus  PoVERAValidator::start  (two interval timers)       *)
(*          p2p        P2PNetwork::start       (swarm event loop)          *)
(*          rpc        RpcServer::start        (accept loop)               *)
(*        Ctrl+C -> broadcast of the shutdown signal -> three sequential   *)
(*        waits, each raced against a 30 s sleep.                          *)
(*                                                                         *)
(* Time is a discrete clock in seconds.  Only the order of the clock and   *)
(* the timers' deadlines is observable to the program, so the clock moves  *)
(* from one deadline to the next (AdvanceTime).  A unit of work (a slot    *)
(* evaluation, an event dispatch) is an async call: the model lets any     *)
(* amount of time pass before it returns.                                  *)
(*                                                                         *)
(* Floating point values are kept in hundredths (utilization 0.5 = 50).    *)
(***************************************************************************)
EXTENDS Integers, Sequences, FiniteSets, TLC

\* ------------------------------------------------------------------ bounds

\* The interval timers are followed up to MaxTime (seconds): a tick whose
\* deadline lies later is not taken.
MaxTime == 9

\* The gossip messages followed: the log of handled messages holds at most
\* MaxMessages of them.
MaxMessages == 2

\* ------------------------------------------------------- program constants

ShutdownTimeout == 30
StaticMinimumStake == 20
StakeFloor == 15
StakeCeiling == 150
DefaultUtilization == 50
DefaultValidatorCount == 50

Min(a, b) == IF a < b THEN a ELSE b
Max(a, b) == IF a > b THEN a ELSE b

\* ------------------------------------------------------------ configuration

Networks == {"mainnet", "testnet", "devnet"}

\* ChainSpec of each network profile, and the network id.
ChainSpecOf(name) ==
    CASE name = "mainnet" -> [commerce_block_time |-> 3, security_block_time |-> 540,
                              min_validator_stake |-> 20, max_validators |-> 1000]
      [] name = "testnet" -> [commerce_block_time |-> 3, security_block_time |-> 540,
                              min_validator_stake |-> 10, max_validators |-> 100]
      [] name = "devnet"  -> [commerce_block_time |-> 3, security_block_time |-> 60,
                              min_validator_stake |-> 1, max_validators |-> 10]

NetworkIdOf(name) ==
    CASE name = "mainnet" -> 1
      [] name = "testnet" -> 2
      [] name = "devnet"  -> 3

\* The bootstrap peers of each network profile.
BootstrapPeersOf(name) ==
    CASE name = "mainnet" -> << "/dns4/mainnet-boot1.omne.network/tcp/30303",
                                "/dns4/mainnet-boot2.omne.network/tcp/30303" >>
      [] name = "testnet" -> << "/dns4/testnet-boot1.omne.network/tcp/30303",
                                "/dns4/testnet-boot2.omne.network/tcp/30303" >>
      [] name = "devnet"  -> << "/ip4/127.0.0.1/tcp/30303" >>

\* Amounts of quar are counted in units of 10^14 quar (0.0001 OMC): every
\* price of the source is a whole number of them.
\* OMPConfig.pricing_per_gb_quar of the profiles: 50_000_000_000_000_000 quar.
DefaultPricingPerGb == 500

\* ValidatorConfig::new_for_network for a known network name (an unknown name
\* is an error: see LoadConfig).
NewForNetwork(name) ==
    [ network   |-> [name |-> name, id |-> NetworkIdOf(name), chain_spec |-> ChainSpecOf(name)],
      p2p       |-> [max_peers |-> 50, bootstrap_peers |-> BootstrapPeersOf(name)],
      rpc       |-> [enable_http |-> TRUE],
      validator |-> [is_validator |-> FALSE, validator_stake |-> 20],
      oon       |-> [enable_oon |-> FALSE],
      omp       |-> [enable_omp |-> FALSE, pricing_per_gb_quar |-> DefaultPricingPerGb],
      orc20_relayer |-> [enable_relayer |-> FALSE],
      paymaster |-> [enable_paymaster |-> FALSE] ]

\* Configuration files a node may be started from (ValidatorConfig::load_from_file
\* deserialises every field, so a file may hold any chain specification).
\*   "custom.toml"   a private network: one-minute commerce blocks, nine-minute
\*                   security blocks, min_validator_stake = 200
\*   "nohttp.toml"   devnet with the HTTP RPC switched off
\*   "missing.toml"  a path that cannot be read
ConfigPaths == {"custom.toml", "nohttp.toml", "missing.toml"}

FileReadable(path) == path # "missing.toml"

FileConfig(path) ==
    IF path = "custom.toml"
    THEN [ NewForNetwork("testnet") EXCEPT !.network.name = "custom",
                                           !.network.id = 7,
                                           !.network.chain_spec.commerce_block_time = 60,
                                           !.network.chain_spec.min_validator_stake = 200 ]
    ELSE [ NewForNetwork("devnet") EXCEPT !.rpc.enable_http = FALSE ]

\* The configuration before one is loaded.
NoConfig ==
    [ network   |-> [name |-> "", id |-> 0,
                     chain_spec |-> [commerce_block_time |-> 0, security_block_time |-> 0,
                                     min_validator_stake |-> 0, max_validators |-> 0]],
      p2p       |-> [max_peers |-> 0, bootstrap_peers |-> << >>],
      rpc       |-> [enable_http |-> FALSE],
      validator |-> [is_validator |-> FALSE, validator_stake |-> 0],
      oon       |-> [enable_oon |-> FALSE],
      omp       |-> [enable_omp |-> FALSE, pricing_per_gb_quar |-> 0],
      orc20_relayer |-> [enable_relayer |-> FALSE],
      paymaster |-> [enable_paymaster |-> FALSE] ]

\* A new_for_network that falls back to the devnet profile for a name it
\* does not know; UnknownNetworkRefused does not survive it.
NewForNetworkLenient(name) ==
    [ok |-> TRUE, config |-> NewForNetwork(IF name \in Networks THEN name ELSE "devnet")]

\* ValidatorConfig::new_for_network as the Result it returns: the `_` arm of
\* the match returns Err before any configuration is built.
NewForNetworkResult(name) ==
    IF name \in Networks
    THEN [ok |-> TRUE, config |-> NewForNetwork(name)]
    ELSE [ok |-> FALSE, config |-> NoConfig]

\* start_validator's "Override config with CLI parameters".
OverrideConfig(c, args) ==
    [ c EXCEPT !.validator.is_validator = args.validator,
               !.validator.validator_stake = args.stake ]

\* --------------------------------------------------------- stake economics

\* No limits at all; StakeRequirementInRange does not survive it.
ClampNone(x, lo, hi) == x

Clamp(x, lo, hi) == Max(lo, Min(hi, x))

\* A requirement that grows as validators become scarce;
\* StakeRequirementMonotone does not survive it.
CalculateDynamicStakeRequirementScarcity(network_utilization, validator_count, base_stake) ==
    LET utilization_factor == Clamp(100 + network_utilization, 50, 200)
        validator_density  == Clamp(230 - validator_count, 80, 150)
        dynamic_stake      == (base_stake * utilization_factor * validator_density) \div 10000
    IN  Clamp(dynamic_stake, StakeFloor, StakeCeiling)

\* validator.rs calculate_dynamic_stake_requirement(network_utilization,
\* validator_count, base_stake): utilization in hundredths, the two factors in
\* hundredths, the product truncated (`as u64`) and clamped to [15, 150].
CalculateDynamicStakeRequirement(network_utilization, validator_count, base_stake) ==
    LET utilization_factor == Clamp(100 + network_utilization, 50, 200)
        validator_density  == Clamp(validator_count, 80, 150)
        dynamic_stake      == (base_stake * utilization_factor * validator_density) \div 10000
    IN  Clamp(dynamic_stake, StakeFloor, StakeCeiling)

\* The requirement ValidatorNode::new checks the declared stake against.
RequiredStake(c) ==
    CalculateDynamicStakeRequirement(DefaultUtilization, DefaultValidatorCount,
                                     c.network.chain_spec.min_validator_stake)

\* --------------------------------------------------------- PoVERAValidator

\* A periodic recomputation without the lower stability limit;
\* StakeFunctionsAgree does not survive it.
SelfCalculateDynamicStakeRequirementNoFloor(c, nm) ==
    LET base_stake         == c.network.chain_spec.min_validator_stake
        utilization_factor == Max(50, Min(200, 100 + nm.network_utilization))
        validator_density  == Max(80, Min(150, nm.active_validators))
        dynamic_stake      == (base_stake * utilization_factor * validator_density) \div 10000
    IN  Min(150, dynamic_stake)

\* PoVERAValidator::calculate_dynamic_stake_requirement(&self): the periodic
\* recomputation, from the configuration's min_validator_stake and the
\* network metrics (utilization in hundredths).
SelfCalculateDynamicStakeRequirement(c, nm) ==
    LET base_stake         == c.network.chain_spec.min_validator_stake
        utilization_factor == Max(50, Min(200, 100 + nm.network_utilization))
        validator_density  == Max(80, Min(150, nm.active_validators))
        dynamic_stake      == (base_stake * utilization_factor * validator_density) \div 10000
    IN  Max(15, Min(150, dynamic_stake))

\* PoVERAValidator::new: the three records it builds from the configuration.
NewConsensusState(c) ==
    [ commerce_epoch |-> 0, security_epoch |-> 0,
      commerce_height |-> 0, security_height |-> 0,
      is_active |-> c.validator.is_validator,
      stake |-> c.validator.validator_stake,
      blocks_proposed |-> 0, attestations_made |-> 0 ]

NewPerformanceMetrics ==
    [ total_uptime |-> 0, total_downtime |-> 0,
      blocks_proposed |-> 0, blocks_missed |-> 0,
      oon_jobs_completed |-> 0, omp_requests_served |-> 0,
      orc20_txs_relayed |-> 0, paymaster_txs_sponsored |-> 0 ]

NewNetworkMetrics(c, t) ==
    [ network_utilization |-> 50, active_validators |-> 50,
      dynamic_stake_requirement |-> c.network.chain_spec.min_validator_stake,
      network_health |-> [num |-> 95, den |-> 1], last_update |-> t ]

\* An f64 result is kept as the exact fraction num / den in lowest terms.
RECURSIVE Gcd(_, _)
Gcd(a, b) == IF b = 0 THEN a ELSE Gcd(b, a % b)

Frac(n, d) ==
    LET g == Gcd(IF n < 0 THEN -n ELSE n, d)
    IN  [num |-> n \div g, den |-> d \div g]

\* An uptime that counts a node without samples as down;
\* UptimePercentage does not survive it.
CalculateUptimePercentageUnsampledZero(pm) ==
    LET total_time == pm.total_uptime + pm.total_downtime
    IN  IF total_time = 0 THEN Frac(0, 1) ELSE Frac(pm.total_uptime * 100, total_time)

\* PoVERAValidator::calculate_uptime_percentage.
CalculateUptimePercentage(pm) ==
    LET total_time == pm.total_uptime + pm.total_downtime
    IN  IF total_time = 0 THEN Frac(100, 1) ELSE Frac(pm.total_uptime * 100, total_time)

\* score >= hundredths / 100, for a score kept as a fraction.
ScoreAtLeast(score, hundredths) == score.num * 100 >= hundredths * score.den

\* Tiers that start strictly above their thresholds; PerformanceBonusTiers
\* does not survive it.
CalculatePerformanceBonusStrict(pm, base_reward) ==
    LET uptime           == CalculateUptimePercentage(pm)
        uptime_score     == Frac(uptime.num, uptime.den * 100)
        block_accuracy   == IF pm.blocks_proposed + pm.blocks_missed > 0
                            THEN Frac(pm.blocks_proposed, pm.blocks_proposed + pm.blocks_missed)
                            ELSE Frac(1, 1)
        performance_score == Frac(uptime_score.num * block_accuracy.num,
                                  uptime_score.den * block_accuracy.den)
        Above(hundredths) == performance_score.num * 100 > hundredths * performance_score.den
        bonus_multiplier == IF Above(95) THEN 20
                            ELSE IF Above(90) THEN 15
                            ELSE IF Above(85) THEN 10
                            ELSE IF Above(75) THEN 5
                            ELSE 0
    IN  (base_reward * bonus_multiplier) \div 100

\* PoVERAValidator::calculate_performance_bonus(base_reward); the multiplier
\* is kept in hundredths and the product truncated (`as u128`).
CalculatePerformanceBonus(pm, base_reward) ==
    LET uptime           == CalculateUptimePercentage(pm)
        uptime_score     == Frac(uptime.num, uptime.den * 100)
        block_accuracy   == IF pm.blocks_proposed + pm.blocks_missed > 0
                            THEN Frac(pm.blocks_proposed, pm.blocks_proposed + pm.blocks_missed)
                            ELSE Frac(1, 1)
        performance_score == Frac(uptime_score.num * block_accuracy.num,
                                  uptime_score.den * block_accuracy.den)
        bonus_multiplier == IF ScoreAtLeast(performance_score, 95) THEN 20
                            ELSE IF ScoreAtLeast(performance_score, 90) THEN 15
                            ELSE IF ScoreAtLeast(performance_score, 85) THEN 10
                            ELSE IF ScoreAtLeast(performance_score, 75) THEN 5
                            ELSE 0
    IN  (base_reward * bonus_multiplier) \div 100

\* A health score that already counts 20 validators as enough;
\* NetworkHealthRange does not survive it.
CalculateNetworkHealthLowThreshold(pm, nm) ==
    LET uptime_score          == CalculateUptimePercentage(pm)
        validator_count_score == IF nm.active_validators >= 20 THEN 100 ELSE 50
        deviation             == nm.network_utilization - 50
        utilization_score     == 100 - (IF deviation < 0 THEN -deviation ELSE deviation)
    IN  Frac(uptime_score.num + (validator_count_score + utilization_score) * uptime_score.den,
             3 * uptime_score.den)

\* PoVERAValidator::calculate_network_health; with the utilization in
\* hundredths, (1.0 - |utilization - 0.5|) * 100.0 is 100 - |utilization - 50|.
CalculateNetworkHealth(pm, nm) ==
    LET uptime_score          == CalculateUptimePercentage(pm)
        validator_count_score == IF nm.active_validators >= 21 THEN 100 ELSE 50
        deviation             == nm.network_utilization - 50
        utilization_score     == 100 - (IF deviation < 0 THEN -deviation ELSE deviation)
    IN  Frac(uptime_score.num + (validator_count_score + utilization_score) * uptime_score.den,
             3 * uptime_score.den)

\* update_network_metrics: the cadence in seconds, and the utilization (in
\* hundredths) and validator count it stores in place of measured ones.
UpdateCadence == 30
SimulatedUtilization == 60
SimulatedValidators == 55

\* An update whose gate is `>=`, open from the thirtieth second on;
\* MetricsUpdateCadence does not survive it.
UpdateNetworkMetricsInclusive(c, pm, nm, t) ==
    LET elapsed == IF t > nm.last_update THEN t - nm.last_update ELSE 0
        nm1 == [nm EXCEPT !.network_utilization = SimulatedUtilization,
                          !.active_validators = SimulatedValidators]
        nm2 == [nm1 EXCEPT !.dynamic_stake_requirement =
                               SelfCalculateDynamicStakeRequirement(c, nm1)]
        nm3 == [nm2 EXCEPT !.network_health = CalculateNetworkHealth(pm, nm2)]
    IN  IF elapsed >= UpdateCadence THEN [nm3 EXCEPT !.last_update = t] ELSE nm

\* PoVERAValidator::update_network_metrics called at time t: NetworkMetrics
\* afterwards.  `now.duration_since(last_update)` is 0 when last_update is
\* not in the past.  The function writes no other field and returns Ok.
UpdateNetworkMetrics(c, pm, nm, t) ==
    LET elapsed == IF t > nm.last_update THEN t - nm.last_update ELSE 0
        nm1 == [nm EXCEPT !.network_utilization = SimulatedUtilization,
                          !.active_validators = SimulatedValidators]
        nm2 == [nm1 EXCEPT !.dynamic_stake_requirement =
                               SelfCalculateDynamicStakeRequirement(c, nm1)]
        nm3 == [nm2 EXCEPT !.network_health = CalculateNetworkHealth(pm, nm2)]
    IN  IF elapsed > UpdateCadence THEN [nm3 EXCEPT !.last_update = t] ELSE nm

\* The average prices of calculate_monthly_revenue_estimate, in units of
\* 10^14 quar: 0.001 OMC per relayed transaction, 0.0005 OMC per sponsored
\* transaction, 0.01 OMC per OON job.
AvgFeePerTx == 10
AvgSponsorshipFee == 5
AvgRevenuePerJob == 100

\* A requests counter is turned into gigabytes served by `/ 1000`.
RequestsPerGb == 1000

\* An estimate that adds every service's term without looking at the enable
\* flags; RevenueOfEnabledServices does not survive it.
CalculateMonthlyRevenueEstimateUngated(c, pm) ==
    (pm.omp_requests_served \div RequestsPerGb) * c.omp.pricing_per_gb_quar
        + pm.orc20_txs_relayed * AvgFeePerTx
        + pm.paymaster_txs_sponsored * AvgSponsorshipFee
        + pm.oon_jobs_completed * AvgRevenuePerJob

\* PoVERAValidator::calculate_monthly_revenue_estimate, in units of 10^14
\* quar.  The u128 sum cannot overflow: each counter is a u64 and each price
\* below 2^64 (a price read from a TOML file is at most 2^63 - 1).
CalculateMonthlyRevenueEstimate(c, pm) ==
    LET total0 == 0
        total1 == IF c.omp.enable_omp
                  THEN total0 + (pm.omp_requests_served \div RequestsPerGb)
                                    * c.omp.pricing_per_gb_quar
                  ELSE total0
        total2 == IF c.orc20_relayer.enable_relayer
                  THEN total1 + pm.orc20_txs_relayed * AvgFeePerTx
                  ELSE total1
        total3 == IF c.paymaster.enable_paymaster
                  THEN total2 + pm.paymaster_txs_sponsored * AvgSponsorshipFee
                  ELSE total2
        total4 == IF c.oon.enable_oon
                  THEN total3 + pm.oon_jobs_completed * AvgRevenuePerJob
                  ELSE total3
    IN  total4

\* A status that reports the network's minimum stake as the validator's
\* stake; StatusReadOnly does not survive it.
GetStatusMinimumStake(c, s, pm) ==
    [ is_validator |-> c.validator.is_validator,
      is_active |-> s.is_active,
      commerce_epoch |-> s.commerce_epoch,
      security_epoch |-> s.security_epoch,
      commerce_height |-> s.commerce_height,
      security_height |-> s.security_height,
      stake |-> c.network.chain_spec.min_validator_stake,
      uptime_percentage |-> CalculateUptimePercentage(pm),
      last_block_time |-> "None",
      infrastructure_services |->
        [ oon_enabled |-> c.oon.enable_oon,
          oon_jobs_completed |-> pm.oon_jobs_completed,
          omp_enabled |-> c.omp.enable_omp,
          omp_storage_served_gb |-> pm.omp_requests_served \div RequestsPerGb,
          orc20_relayer_enabled |-> c.orc20_relayer.enable_relayer,
          orc20_txs_relayed |-> pm.orc20_txs_relayed,
          paymaster_enabled |-> c.paymaster.enable_paymaster,
          paymaster_txs_sponsored |-> pm.paymaster_txs_sponsored,
          total_monthly_revenue_estimate |-> CalculateMonthlyRevenueEstimate(c, pm) ] ]

\* PoVERAValidator::get_status: the ConsensusStatus it builds from `&self`.
GetStatus(c, s, pm) ==
    [ is_validator |-> c.validator.is_validator,
      is_active |-> s.is_active,
      commerce_epoch |-> s.commerce_epoch,
      security_epoch |-> s.security_epoch,
      commerce_height |-> s.commerce_height,
      security_height |-> s.security_height,
      stake |-> s.stake,
      uptime_percentage |-> CalculateUptimePercentage(pm),
      last_block_time |-> "None",
      infrastructure_services |->
        [ oon_enabled |-> c.oon.enable_oon,
          oon_jobs_completed |-> pm.oon_jobs_completed,
          omp_enabled |-> c.omp.enable_omp,
          omp_storage_served_gb |-> pm.omp_requests_served \div RequestsPerGb,
          orc20_relayer_enabled |-> c.orc20_relayer.enable_relayer,
          orc20_txs_relayed |-> pm.orc20_txs_relayed,
          paymaster_enabled |-> c.paymaster.enable_paymaster,
          paymaster_txs_sponsored |-> pm.paymaster_txs_sponsored,
          total_monthly_revenue_estimate |-> CalculateMonthlyRevenueEstimate(c, pm) ] ]

\* ------------------------------------------------------------------ utils

\* A subtraction that is not saturating; UtilsUptime does not survive it.
CalculateUptimeUnsaturated(total_time, downtime) ==
    IF total_time = 0
    THEN Frac(100, 1)
    ELSE Frac((total_time - downtime) * 100, total_time)

\* utils::calculate_uptime(total_time, downtime), the durations in seconds.
CalculateUptime(total_time, downtime) ==
    IF total_time = 0
    THEN Frac(100, 1)
    ELSE LET uptime == IF downtime > total_time THEN 0 ELSE total_time - downtime
         IN  Frac(uptime * 100, total_time)

\* The records before PoVERAValidator::new has run.
NoConsensusState == NewConsensusState(NoConfig)
NoNetworkMetrics == NewNetworkMetrics(NoConfig, 0)

\* ------------------------------------------------------------------- state

Tasks == <<"consensus", "p2p", "rpc">>
TaskSet == {"consensus", "p2p", "rpc"}
Layers == {"commerce", "security"}

VARIABLES
    cli,                  \* the `start` command's arguments
    config,               \* ValidatorConfig in use
    mpc,                  \* where start_validator / ValidatorNode is
    created,              \* the subsystem objects ValidatorNode::new has built
    state,                \* PoVERAValidator.state (ConsensusState)
    performance_metrics,  \* PoVERAValidator.performance_metrics
    network_metrics,      \* PoVERAValidator.network_metrics
    task,                 \* where each spawned task is
    subscribed,           \* the receivers of the shutdown channel
    pending,              \* the receivers holding an unread shutdown message
    now,                  \* the clock, in seconds
    timer,                \* next deadline of commerce_timer and security_timer
    sleepDeadline,        \* deadline of the sleep the current shutdown wait races
    shutdownAt,           \* when the shutdown signal was broadcast (-1: not yet)
    timedOut,             \* the tasks ValidatorNode::start gave up waiting for
    started,              \* slot evaluations started, per layer
    inflight,             \* slot evaluations started and not yet returned, per layer
    evalStart,            \* when the latest evaluation of each layer started
    missed,               \* per layer: the latest evaluation during which ticks of
                          \* the layer fell due (lo, hi], and the number n of
                          \* evaluations started since for ticks that fell due in it
    lastResult,           \* what the latest slot evaluation returned
    ret,                  \* the latest call of one of the node's functions:
                          \* its name, its arguments and what it returned
    gossip,               \* the gossip messages handled so far, each with the
                          \* message id computed for it (and, for a message
                          \* delivered to the event loop, the forwarding peer)
    swarm,                \* P2PNetwork.swarm: whether a swarm is stored, the
                          \* topics it subscribed to, the bootstrap addresses it
                          \* dialled, those whose dial failed, its connections
    dispatched,           \* the message ids handed to the consensus validator
    eventResult           \* what the swarm event handler returned to the loop
                          \* for the event in hand ("none" between events)

vars == << cli, config, mpc, created, state, performance_metrics, network_metrics,
           task, subscribed, pending, now, timer, sleepDeadline, shutdownAt,
           timedOut, started, inflight, evalStart, missed, lastResult, ret, gossip,
           swarm, dispatched, eventResult >>

p2pVars     == << swarm, dispatched, eventResult >>
callVars    == << ret, gossip, p2pVars >>
nodeVars    == << cli, config, mpc, created >>
poveraVars  == << state, performance_metrics, network_metrics >>
runVars     == << task, subscribed, pending, now, timer, sleepDeadline, shutdownAt,
                  timedOut, started, inflight, evalStart, missed, lastResult >>

\* No function has been called and no gossip message handled; P2PNetwork::new
\* leaves the swarm unset (`Mutex::new(None)`).
NoReturn == [fn |-> "none", args |-> << >>, val |-> 0]

NoSwarm ==
    [stored |-> FALSE, topics |-> {}, dialled |-> << >>, warned |-> << >>, connections |-> {}]

NoCalls ==
    /\ ret = NoReturn
    /\ gossip = << >>
    /\ swarm = NoSwarm
    /\ dispatched = << >>
    /\ eventResult = "none"

\* Nothing is running: the state of the run-time part before the tasks are spawned.
Idle ==
    /\ NoCalls
    /\ task = [t \in TaskSet |-> "unspawned"]
    /\ subscribed = {}
    /\ pending = {}
    /\ now = 0
    /\ timer = [l \in Layers |-> 0]
    /\ sleepDeadline = 0
    /\ shutdownAt = -1
    /\ timedOut = {}
    /\ started = [l \in Layers |-> 0]
    /\ inflight = [l \in Layers |-> 0]
    /\ evalStart = [l \in Layers |-> -1]
    /\ missed = [l \in Layers |-> [lo |-> -1, hi |-> -1, n |-> 0]]
    /\ lastResult = "none"

\* ------------------------------------------------- start-up (main.rs, validator.rs)

\* The command lines the model starts the node with.
StakeValues == {0, 14, 15, 19, 20, 23, 24, 149, 150, 160, 200}
NetworkNames == Networks \cup {"localnet", "Mainnet", ""}
Args == [ config_path : {"none"} \cup ConfigPaths,
          network     : NetworkNames,
          validator   : BOOLEAN,
          stake       : StakeValues ]

\* start_validator, "Load or create configuration" and the CLI overrides.
\* An unreadable file and an unknown network name are errors (`?`).  A
\* config_path stands for --config or for an existing <data_dir>/config.toml.
ConfigLoads(args) ==
    IF args.config_path # "none"
    THEN FileReadable(args.config_path)
    ELSE NewForNetworkResult(args.network).ok

LoadedConfig(args) ==
    OverrideConfig(IF args.config_path # "none"
                   THEN FileConfig(args.config_path)
                   ELSE NewForNetworkResult(args.network).config,
                   args)

LoadConfig ==
    /\ mpc = "load_config"
    /\ IF ConfigLoads(cli)
       THEN /\ config' = LoadedConfig(cli)
            /\ mpc' = "check_stake"
       ELSE /\ mpc' = "failed"
            /\ UNCHANGED config
    /\ UNCHANGED << cli, created, poveraVars, runVars, callVars >>

\* A static check applied in observer mode too; StakeRejectedExactly does
\* not survive it.
StaticStakeOkAnyMode(args) == ~(args.stake < StaticMinimumStake)

\* start_validator, "Validate minimum stake for validators".
StaticStakeOk(args) == ~(args.validator /\ args.stake < StaticMinimumStake)

CheckMinimumStake ==
    /\ mpc = "check_stake"
    /\ mpc' = IF StaticStakeOk(cli) THEN "node_new" ELSE "failed"
    /\ UNCHANGED << cli, config, created, poveraVars, runVars, callVars >>

\* ValidatorNode::new, "Validate dynamic stake requirements".
DynamicStakeOk(c) ==
    ~(c.validator.is_validator /\ c.validator.validator_stake < RequiredStake(c))

NodeNewValidate ==
    /\ mpc = "node_new"
    /\ mpc' = IF DynamicStakeOk(config) THEN "init_directories" ELSE "failed"
    /\ UNCHANGED << cli, config, created, poveraVars, runVars, callVars >>

\* ValidatorNode::new, config.init_directories(..)?: the file system decides.
InitDirectories ==
    /\ mpc = "init_directories"
    /\ \E ok \in BOOLEAN : mpc' = IF ok THEN "new_consensus" ELSE "failed"
    /\ UNCHANGED << cli, config, created, poveraVars, runVars, callVars >>

\* PoVERAValidator::new (it always succeeds).
ConsensusNew ==
    /\ mpc = "new_consensus"
    /\ state' = NewConsensusState(config)
    /\ performance_metrics' = NewPerformanceMetrics
    /\ network_metrics' = NewNetworkMetrics(config, now)
    /\ created' = created \cup {"consensus"}
    /\ mpc' = "new_p2p"
    /\ UNCHANGED << cli, config, runVars, callVars >>

\* P2PNetwork::new (it always succeeds: the swarm is built later, in start).
P2PNew ==
    /\ mpc = "new_p2p"
    /\ created' = created \cup {"p2p"}
    /\ mpc' = "new_rpc"
    /\ UNCHANGED << cli, config, poveraVars, runVars, callVars >>

\* RpcServer::new: parsing "<bind_address>:<port>" may fail (`?`).
RpcNew ==
    /\ mpc = "new_rpc"
    /\ \E ok \in BOOLEAN :
          IF ok THEN /\ created' = created \cup {"rpc"}
                     /\ mpc' = "spawn_consensus"
                ELSE /\ mpc' = "failed"
                     /\ UNCHANGED created
    /\ UNCHANGED << cli, config, poveraVars, runVars, callVars >>

\* A start whose tasks would subscribe their receivers themselves, once they
\* run, instead of being handed one; NoTaskMissesShutdown does not survive it.
SpawnUnsubscribed(t, next) ==
    /\ task' = [task EXCEPT ![t] = "spawned"]
    /\ subscribed' = subscribed \cup {"main"}
    /\ mpc' = next
    /\ UNCHANGED << cli, config, created, poveraVars, pending, now, timer,
                    sleepDeadline, shutdownAt, timedOut, started, inflight, evalStart, missed,
                    lastResult, callVars >>

\* ValidatorNode::start: each task gets a receiver subscribed before it is
\* spawned; the node's own receiver is subscribed first.
Spawn(t, next) ==
    /\ task' = [task EXCEPT ![t] = "spawned"]
    /\ subscribed' = subscribed \cup {"main", t}
    /\ mpc' = next
    /\ UNCHANGED << cli, config, created, poveraVars, pending, now, timer,
                    sleepDeadline, shutdownAt, timedOut, started, inflight, evalStart, missed,
                    lastResult, callVars >>

SpawnConsensus == mpc = "spawn_consensus" /\ Spawn("consensus", "spawn_p2p")
SpawnP2P       == mpc = "spawn_p2p" /\ Spawn("p2p", "spawn_rpc")
SpawnRpc       == mpc = "spawn_rpc" /\ Spawn("rpc", "running")

StartupInit ==
    /\ cli \in Args
    /\ config = NoConfig
    /\ mpc = "load_config"
    /\ created = {}
    /\ state = NoConsensusState
    /\ performance_metrics = NewPerformanceMetrics
    /\ network_metrics = NoNetworkMetrics
    /\ Idle

StartupNext ==
    \/ LoadConfig
    \/ CheckMinimumStake
    \/ NodeNewValidate
    \/ InitDirectories
    \/ ConsensusNew
    \/ P2PNew
    \/ RpcNew
    \/ SpawnConsensus
    \/ SpawnP2P
    \/ SpawnRpc

\* The start-up path, from the parsed command line to the spawn of the tasks.
StartupSpec == StartupInit /\ [][StartupNext]_vars

\* ------------------------------------------- consensus task (consensus.rs)

\* Timers built from the wrong block times (commerce from the security block
\* time and the reverse); ProfileFixesChainSpec does not survive it.
PeriodSwapped(l) ==
    IF l = "commerce" THEN config.network.chain_spec.security_block_time
    ELSE config.network.chain_spec.commerce_block_time

Period(l) ==
    IF l = "commerce"
    THEN config.network.chain_spec.commerce_block_time
    ELSE config.network.chain_spec.security_block_time

\* tokio::time::interval(period): the first tick is due at once; the interval
\* is created with the default MissedTickBehavior (Burst), under which the
\* deadline after a tick is the previous deadline plus the period, however
\* late the tick was taken.
IntervalFirstDeadline(t) == t

NextTimeout(timeout, t, period) == timeout + period

TickReady(l) == timer[l] <= now

\* A deadline d fell due within the window w = (lo, hi].
DueWithin(d, w) == w.lo < d /\ d <= w.hi

\* A receiver that never sees the broadcast; ShutdownObserved does not
\* survive it.
ShutdownNeverReady(r) == FALSE

\* A receiver's recv() is ready when the shutdown message is waiting in it.
ShutdownReady(r) == r \in pending

\* A start that takes every node for a validator; ObserverNeverEvaluates
\* does not survive it.
ObserverModeIgnored(c) == FALSE

\* `if !self.config.validator.is_validator`
ObserverMode(c) == ~c.validator.is_validator

\* PoVERAValidator::start up to the loop: observer mode, or the two timers.
ConsensusStart ==
    /\ task["consensus"] = "spawned"
    /\ IF ObserverMode(config)
       THEN /\ task' = [task EXCEPT !["consensus"] = "observer"]
            /\ UNCHANGED timer
       ELSE /\ task' = [task EXCEPT !["consensus"] = "select"]
            /\ timer' = [l \in Layers |-> IntervalFirstDeadline(now)]
    /\ UNCHANGED << nodeVars, poveraVars, subscribed, pending, now, sleepDeadline,
                    shutdownAt, timedOut, started, inflight, evalStart, missed, lastResult, callVars >>

\* Observer mode: `let _ = shutdown.recv().await; return Ok(())`.
ObserverShutdown ==
    /\ task["consensus"] = "observer"
    /\ ShutdownReady("consensus")
    /\ task' = [task EXCEPT !["consensus"] = "done"]
    /\ pending' = pending \ {"consensus"}
    /\ UNCHANGED << nodeVars, poveraVars, subscribed, now, timer, sleepDeadline,
                    shutdownAt, timedOut, started, inflight, evalStart, missed, lastResult, callVars >>

\* A loop that hands the evaluation to a task of its own and goes straight
\* back to select!; AtMostOneEvaluationInFlight does not survive it.
AfterTickSpawned(l) == "select"

\* Where the loop is once a tick branch of select! has been taken: inside the
\* awaited process_<layer>_slot call.
AfterTick(l) == l

\* select! takes the tick branch of a layer whose timer is ready and calls
\* process_commerce_slot / process_security_slot.
Tick(l) ==
    /\ task["consensus"] = "select"
    /\ TickReady(l)
    /\ timer[l] <= MaxTime
    /\ started' = [started EXCEPT ![l] = @ + 1]
    /\ timer' = [timer EXCEPT ![l] = NextTimeout(timer[l], now, Period(l))]
    /\ inflight' = [inflight EXCEPT ![l] = @ + 1]
    /\ evalStart' = [evalStart EXCEPT ![l] = now]
    /\ missed' = [missed EXCEPT ![l].n = IF DueWithin(timer[l], missed[l]) THEN @ + 1 ELSE @]
    /\ task' = [task EXCEPT !["consensus"] = AfterTick(l)]
    /\ UNCHANGED << nodeVars, poveraVars, subscribed, pending, now, sleepDeadline,
                    shutdownAt, timedOut, lastResult, callVars >>

CommerceTick == Tick("commerce")
SecurityTick == Tick("security")

\* What a slot evaluation hands back to the loop.  process_commerce_slot and
\* process_security_slot are `async fn .. -> Result<()>` whose bodies are
\* placeholders; the loop matches on both variants.
SlotResults == {"Ok", "Err"}

\* A loop that propagates the error with `?`; SlotErrorsNotFatal does not
\* survive it.
AfterSlotPropagated(res) == IF res = "Err" THEN "failed" ELSE "select"

\* Where the loop goes when the evaluation returned `res`: `if let Err(e)`
\* logs a warning, and both variants fall through to the next select!.
AfterSlot(res) == "select"

\* An evaluation that counts a block as proposed whatever it returned, and as
\* missed as well when it returned Err; BlocksWithinEvaluations does not
\* survive it.
MetricsAfterSlotDoubleCounted(m, res) ==
    [ m EXCEPT !.blocks_proposed = @ + 1,
               !.blocks_missed = IF res = "Err" THEN @ + 1 ELSE @ ]

\* PerformanceMetrics after a slot evaluation that returned `res`: the loop
\* holds `&self`, and neither branch touches the metrics.
MetricsAfterSlot(m, res) == m

\* An evaluation that advances the heights on Ok and starts them again from 0
\* on Err; EpochsAndHeightsNeverDecrease does not survive it.
StateAfterSlotRestarted(s, res) ==
    [ s EXCEPT !.commerce_height = IF res = "Ok" THEN 1 ELSE 0,
               !.security_height = IF res = "Ok" THEN 1 ELSE 0 ]

\* ConsensusState after a slot evaluation that returned `res`:
\* process_commerce_slot and process_security_slot take `&self` and write no
\* field, and the loop writes none either.
StateAfterSlot(s, res) == s

SlotReturn(l) ==
    /\ task["consensus"] = l
    /\ \E res \in SlotResults :
          /\ lastResult' = res
          /\ task' = [task EXCEPT !["consensus"] = AfterSlot(res)]
          /\ performance_metrics' = MetricsAfterSlot(performance_metrics, res)
          /\ state' = StateAfterSlot(state, res)
    /\ inflight' = [inflight EXCEPT ![l] = @ - 1]
    /\ missed' = [missed EXCEPT ![l] =
                      IF evalStart[l] < timer[l] /\ timer[l] <= now
                      THEN [lo |-> evalStart[l], hi |-> now, n |-> 0]
                      ELSE @]
    /\ UNCHANGED << nodeVars, network_metrics, subscribed, pending, now, timer,
                    sleepDeadline, shutdownAt, timedOut, started, evalStart, callVars >>

CommerceSlotReturn == SlotReturn("commerce")
SecuritySlotReturn == SlotReturn("security")

\* select! takes the shutdown branch: `break`, then `Ok(())`.
ConsensusShutdown ==
    /\ task["consensus"] = "select"
    /\ ShutdownReady("consensus")
    /\ task' = [task EXCEPT !["consensus"] = "done"]
    /\ pending' = pending \ {"consensus"}
    /\ UNCHANGED << nodeVars, poveraVars, subscribed, now, timer, sleepDeadline,
                    shutdownAt, timedOut, started, inflight, evalStart, missed, lastResult, callVars >>

\* ----------------------------------------------------- p2p task (p2p.rs)

Range(seq) == { seq[i] : i \in DOMAIN seq }

\* `format!("{}", network_id)`: an unsigned integer in decimal.
Digit == << "0", "1", "2", "3", "4", "5", "6", "7", "8", "9" >>

RECURSIVE Decimal(_)
Decimal(n) == IF n < 10 THEN Digit[n + 1] ELSE Decimal(n \div 10) \o Digit[(n % 10) + 1]

\* Topic names without the network id; TopicsScopedByNetwork does not
\* survive it.
TopicNamesUnscoped(network_id) ==
    << "omne/consensus/commerce", "omne/consensus/security",
       "omne/transactions", "omne/attestations" >>

\* create_gossipsub_behaviour's `topics`: commerce blocks, security blocks,
\* transactions and attestations, in the order they are subscribed to.
TopicNames(network_id) ==
    << "omne/consensus/commerce/" \o Decimal(network_id),
       "omne/consensus/security/" \o Decimal(network_id),
       "omne/transactions/" \o Decimal(network_id),
       "omne/attestations/" \o Decimal(network_id) >>

\* `peer_addr.parse::<Multiaddr>()`: a multiaddr is a sequence of
\* /protocol/value parts; a host:port pair or an empty string is not one.
ParsesAsMultiaddr(peer_addr) ==
    peer_addr \in { "/dns4/mainnet-boot1.omne.network/tcp/30303",
                    "/dns4/mainnet-boot2.omne.network/tcp/30303",
                    "/dns4/testnet-boot1.omne.network/tcp/30303",
                    "/dns4/testnet-boot2.omne.network/tcp/30303",
                    "/ip4/127.0.0.1/tcp/30303",
                    "/ip4/10.0.0.7/tcp/30303" }

\* The bootstrap addresses whose dial is followed both ways, succeeding and
\* returning Err; the dial of any other address succeeds.
Unreachable ==
    { "/dns4/mainnet-boot1.omne.network/tcp/30303",
      "/dns4/mainnet-boot2.omne.network/tcp/30303",
      "/ip4/10.0.0.7/tcp/30303" }

\* An init_swarm that dials with `swarm.dial(addr)?`: the first failing dial
\* ends it with Err, the swarm is not stored and the later addresses are not
\* dialled; BootstrapFailureNotFatal does not survive it.
InitSwarmDialFatal(c, setup_ok, unreachable) ==
    LET addrs == SelectSeq(c.p2p.bootstrap_peers, ParsesAsMultiaddr)
        Fails(i) == addrs[i] \in unreachable
        failing == { i \in DOMAIN addrs : Fails(i) }
        first == IF failing = {} THEN Len(addrs)
                 ELSE CHOOSE i \in failing : \A j \in failing : i <= j
    IN  IF setup_ok /\ failing = {}
        THEN [ok |-> TRUE,
              swarm |-> [stored |-> TRUE, topics |-> Range(TopicNames(c.network.id)),
                         dialled |-> addrs, warned |-> << >>, connections |-> {}]]
        ELSE [ok |-> FALSE,
              swarm |-> [stored |-> FALSE,
                         topics |-> IF setup_ok THEN Range(TopicNames(c.network.id)) ELSE {},
                         dialled |-> IF setup_ok THEN SubSeq(addrs, 1, first) ELSE << >>,
                         warned |-> << >>, connections |-> {}]]

\* P2PNetwork::init_swarm.  `setup_ok`: the steps ended with `?` (noise
\* configuration, gossipsub construction and the four subscriptions, mDNS,
\* the listen address and listen_on) all succeed; any of them failing returns
\* Err before a swarm is stored.  `unreachable`: the addresses whose dial
\* returns Err.  The bootstrap loop skips an address that does not parse,
\* dials every address that does and only warns when the dial fails; then the
\* swarm is stored and Ok returned.
InitSwarm(c, setup_ok, unreachable) ==
    LET addrs == SelectSeq(c.p2p.bootstrap_peers, ParsesAsMultiaddr)
        Fails(addr) == addr \in unreachable
    IN  IF setup_ok
        THEN [ok |-> TRUE,
              swarm |-> [stored |-> TRUE, topics |-> Range(TopicNames(c.network.id)),
                         dialled |-> addrs, warned |-> SelectSeq(addrs, Fails),
                         connections |-> {}]]
        ELSE [ok |-> FALSE, swarm |-> NoSwarm]

\* P2PNetwork::start: `self.init_swarm().await?` (an Err ends the task), then
\* the event loop.
P2PStart ==
    /\ task["p2p"] = "spawned"
    /\ \E setup_ok \in BOOLEAN,
          unreachable \in SUBSET (Range(config.p2p.bootstrap_peers) \cap Unreachable) :
          LET r == InitSwarm(config, setup_ok, unreachable)
          IN  /\ swarm' = r.swarm
              /\ task' = [task EXCEPT !["p2p"] = IF r.ok THEN "select" ELSE "failed"]
    /\ UNCHANGED << nodeVars, poveraVars, subscribed, pending, now, timer,
                    sleepDeadline, shutdownAt, timedOut, started, inflight, evalStart,
                    missed, lastResult, ret, gossip, dispatched, eventResult >>

\* swarm.next() yields an event that is neither a connection event nor a
\* gossipsub one (a new listen address, ping, identify, Kademlia, mDNS, any
\* other) and handle_swarm_event_static is called: its arm logs the event, or
\* does nothing, and the handler returns Ok.
P2PEvent ==
    /\ task["p2p"] = "select"
    /\ task' = [task EXCEPT !["p2p"] = "event"]
    /\ eventResult' = "Ok"
    /\ UNCHANGED << nodeVars, poveraVars, subscribed, pending, now, timer,
                    sleepDeadline, shutdownAt, timedOut, started, inflight, evalStart,
                    missed, lastResult, ret, gossip, swarm, dispatched >>

\* What handle_swarm_event_static hands back to the loop for a gossipsub
\* event: its gossipsub arm is `handle_gossipsub_event_static(..).await?`, an
\* `async fn .. -> Result<()>` whose body is a placeholder; the loop matches
\* on both variants.
EventResults == {"Ok", "Err"}

\* A loop that propagates the handler's error with `?`; EventErrorsNotFatal
\* does not survive it.
AfterEventPropagated(res) == IF res = "Err" THEN "failed" ELSE "select"

\* Where the loop goes when the handler returned `res`: `if let Err(e)` logs
\* a warning, and both variants fall through to the next select!.
AfterEvent(res) == "select"

\* The loop matches on what the handler returned and selects again.
P2PEventReturn ==
    /\ task["p2p"] = "event"
    /\ task' = [task EXCEPT !["p2p"] = AfterEvent(eventResult)]
    /\ eventResult' = "none"
    /\ UNCHANGED << nodeVars, poveraVars, subscribed, pending, now, timer,
                    sleepDeadline, shutdownAt, timedOut, started, inflight, evalStart,
                    missed, lastResult, ret, gossip, swarm, dispatched >>

P2PShutdown ==
    /\ task["p2p"] = "select"
    /\ ShutdownReady("p2p")
    /\ task' = [task EXCEPT !["p2p"] = "done"]
    /\ pending' = pending \ {"p2p"}
    /\ UNCHANGED << nodeVars, poveraVars, subscribed, now, timer, sleepDeadline,
                    shutdownAt, timedOut, started, inflight, evalStart, missed, lastResult, callVars >>

\* ----------------------------------------------------- rpc task (rpc.rs)

\* A node whose RPC task broadcasts the shutdown signal when the listener
\* cannot be bound; FailedTaskOnlyEnds does not survive it.
RpcStartFailureShutsDown ==
    /\ task["rpc"] = "spawned"
    /\ IF ~config.rpc.enable_http
       THEN /\ task' = [task EXCEPT !["rpc"] = "disabled"]
            /\ UNCHANGED << pending, shutdownAt >>
       ELSE \E ok \in BOOLEAN :
               /\ task' = [task EXCEPT !["rpc"] = IF ok THEN "select" ELSE "failed"]
               /\ pending' = IF ok THEN pending ELSE subscribed
               /\ shutdownAt' = IF ok THEN shutdownAt ELSE now
    /\ UNCHANGED << nodeVars, poveraVars, subscribed, now, timer,
                    sleepDeadline, timedOut, started, inflight, evalStart, missed, lastResult, callVars >>

\* RpcServer::start: with HTTP disabled it only waits for the shutdown signal;
\* otherwise `TcpListener::bind(..).await?`, then the accept loop.
RpcStart ==
    /\ task["rpc"] = "spawned"
    /\ IF ~config.rpc.enable_http
       THEN task' = [task EXCEPT !["rpc"] = "disabled"]
       ELSE \E ok \in BOOLEAN :
               task' = [task EXCEPT !["rpc"] = IF ok THEN "select" ELSE "failed"]
    /\ UNCHANGED << nodeVars, poveraVars, subscribed, pending, now, timer,
                    sleepDeadline, shutdownAt, timedOut, started, inflight, evalStart, missed, lastResult, callVars >>

RpcDisabledShutdown ==
    /\ task["rpc"] = "disabled"
    /\ ShutdownReady("rpc")
    /\ task' = [task EXCEPT !["rpc"] = "done"]
    /\ pending' = pending \ {"rpc"}
    /\ UNCHANGED << nodeVars, poveraVars, subscribed, now, timer, sleepDeadline,
                    shutdownAt, timedOut, started, inflight, evalStart, missed, lastResult, callVars >>

\* listener.accept() completes (a connection or an error) and is dispatched.
RpcAccept ==
    /\ task["rpc"] = "select"
    /\ task' = [task EXCEPT !["rpc"] = "accept"]
    /\ UNCHANGED << nodeVars, poveraVars, subscribed, pending, now, timer,
                    sleepDeadline, shutdownAt, timedOut, started, inflight, evalStart, missed, lastResult, callVars >>

RpcAcceptReturn ==
    /\ task["rpc"] = "accept"
    /\ task' = [task EXCEPT !["rpc"] = "select"]
    /\ UNCHANGED << nodeVars, poveraVars, subscribed, pending, now, timer,
                    sleepDeadline, shutdownAt, timedOut, started, inflight, evalStart, missed, lastResult, callVars >>

RpcShutdown ==
    /\ task["rpc"] = "select"
    /\ ShutdownReady("rpc")
    /\ task' = [task EXCEPT !["rpc"] = "done"]
    /\ pending' = pending \ {"rpc"}
    /\ UNCHANGED << nodeVars, poveraVars, subscribed, now, timer, sleepDeadline,
                    shutdownAt, timedOut, started, inflight, evalStart, missed, lastResult, callVars >>

\* ------------------------------------- ValidatorNode::start: shutdown

WaitPc(t) ==
    CASE t = "consensus" -> "wait_consensus"
      [] t = "p2p"       -> "wait_p2p"
      [] t = "rpc"       -> "wait_rpc"

\* The waits are three select! statements one after the other.
AfterWait(t) ==
    CASE t = "consensus" -> "wait_p2p"
      [] t = "p2p"       -> "wait_rpc"
      [] t = "rpc"       -> "done"

Waiting == mpc \in {"wait_consensus", "wait_p2p", "wait_rpc"}

\* tokio::time::sleep(shutdown_timeout), created when its select! is reached.
SleepDeadline(t) == t + ShutdownTimeout

\* The JoinHandle of a task completes when its future has returned (the
\* spawned closure logs an Err and returns).
Joined(t) == task[t] \in {"done", "failed"}

\* A wait without its sleep branch; NodeStartReturns does not survive it.
SleepNeverElapsed == FALSE

\* The sleep branch of a wait is ready once its deadline has come.
SleepElapsed == now >= sleepDeadline

\* "Wait for shutdown signal": Ctrl+C arrives (the node's own receiver cannot
\* fire first: the only send is the one below).  The node broadcasts the
\* shutdown signal to every subscribed receiver and starts the first wait.
CtrlC ==
    /\ mpc = "running"
    /\ pending' = subscribed
    /\ shutdownAt' = now
    /\ sleepDeadline' = SleepDeadline(now)
    /\ mpc' = WaitPc("consensus")
    /\ UNCHANGED << cli, config, created, poveraVars, task, subscribed, now, timer,
                    timedOut, started, inflight, evalStart, missed, lastResult, callVars >>

\* A wait ends because the task's handle completed ...
WaitJoin(t) ==
    /\ mpc = WaitPc(t)
    /\ Joined(t)
    /\ mpc' = AfterWait(t)
    /\ sleepDeadline' = SleepDeadline(now)
    /\ UNCHANGED << cli, config, created, poveraVars, task, subscribed, pending, now,
                    timer, shutdownAt, timedOut, started, inflight, evalStart, missed, lastResult, callVars >>

\* ... or because the sleep elapsed: a warning, and the task is left behind.
WaitTimeout(t) ==
    /\ mpc = WaitPc(t)
    /\ SleepElapsed
    /\ timedOut' = timedOut \cup {t}
    /\ mpc' = AfterWait(t)
    /\ sleepDeadline' = SleepDeadline(now)
    /\ UNCHANGED << cli, config, created, poveraVars, task, subscribed, pending, now,
                    timer, shutdownAt, started, inflight, evalStart, missed, lastResult, callVars >>

\* -------------------------------------------------------------- the clock

TimersArmed == task["consensus"] \in {"select", "commerce", "security"}

\* The first deadline of layer l's interval that lies after the current time.
NextDeadline(l) ==
    IF timer[l] > now
    THEN timer[l]
    ELSE timer[l] + (((now - timer[l]) \div Period(l)) + 1) * Period(l)

\* The deadlines that lie ahead: of the timers still followed, and of the sleep.
FutureDeadlines ==
    { d \in (IF TimersArmed
             THEN {NextDeadline(l) : l \in Layers} \cap (0 .. MaxTime)
             ELSE {})
            \cup (IF Waiting THEN {sleepDeadline} ELSE {}) :
        d > now }

\* Time passes until the next deadline of an armed timer or sleep.
AdvanceTime ==
    /\ FutureDeadlines # {}
    /\ now' = CHOOSE d \in FutureDeadlines : \A e \in FutureDeadlines : d <= e
    /\ UNCHANGED << nodeVars, poveraVars, task, subscribed, pending, timer,
                    sleepDeadline, shutdownAt, timedOut, started, inflight, evalStart, missed, lastResult, callVars >>

\* ------------------------------------------------------- the running node

\* start_validator accepts the command line: the configuration loads and both
\* stake checks pass.
Accepted(args) ==
    /\ ConfigLoads(args)
    /\ StaticStakeOk(args)
    /\ DynamicStakeOk(LoadedConfig(args))

\* The command lines the running node is explored for: the observers of two
\* network profiles and of a node without HTTP RPC, and a validator of the
\* private network (whose timers tick once within MaxTime; the timing of the
\* network profiles' schedulers is explored in SchedSpec).
RunArgs ==
    { a \in Args :
        /\ Accepted(a)
        /\ a.stake = 200
        /\ a.network = "devnet"
        /\ \/ ~a.validator /\ a.config_path \in {"none", "nohttp.toml"}
           \/ a.validator /\ a.config_path = "custom.toml" }

\* The node as ValidatorNode::new returns it for a command line.
Constructed(args) ==
    /\ cli = args
    /\ config = LoadedConfig(args)
    /\ created = TaskSet
    /\ state = NewConsensusState(LoadedConfig(args))
    /\ performance_metrics = NewPerformanceMetrics
    /\ network_metrics = NewNetworkMetrics(LoadedConfig(args), 0)

\* The node about to run ValidatorNode::start.
Init ==
    /\ \E a \in RunArgs : Constructed(a)
    /\ mpc = "spawn_consensus"
    /\ Idle

Next ==
    \/ SpawnConsensus
    \/ SpawnP2P
    \/ SpawnRpc
    \/ ConsensusStart
    \/ ObserverShutdown
    \/ CommerceTick
    \/ SecurityTick
    \/ CommerceSlotReturn
    \/ SecuritySlotReturn
    \/ ConsensusShutdown
    \/ P2PStart
    \/ P2PEvent
    \/ P2PEventReturn
    \/ P2PShutdown
    \/ RpcStart
    \/ RpcDisabledShutdown
    \/ RpcAccept
    \/ RpcAcceptReturn
    \/ RpcShutdown
    \/ CtrlC
    \/ \E t \in TaskSet : WaitJoin(t)
    \/ \E t \in TaskSet : WaitTimeout(t)
    \/ AdvanceTime

\* The running node: ValidatorNode::start and its three tasks.
Spec == Init /\ [][Next]_vars

\* ------------------------------------------------- the consensus scheduler

\* The command lines the scheduler is explored for: every network profile, as
\* validator and as observer.
SchedArgs ==
    { a \in Args : Accepted(a) /\ a.stake = 200 /\ a.config_path = "none" }

\* ValidatorNode::start has spawned the tasks; none has run yet.
SchedInit ==
    /\ \E a \in SchedArgs : Constructed(a)
    /\ mpc = "running"
    /\ NoCalls
    /\ task = [t \in TaskSet |-> "spawned"]
    /\ subscribed = {"main"} \cup TaskSet
    /\ pending = {}
    /\ now = 0
    /\ timer = [l \in Layers |-> 0]
    /\ sleepDeadline = 0
    /\ shutdownAt = -1
    /\ timedOut = {}
    /\ started = [l \in Layers |-> 0]
    /\ inflight = [l \in Layers |-> 0]
    /\ evalStart = [l \in Layers |-> -1]
    /\ missed = [l \in Layers |-> [lo |-> -1, hi |-> -1, n |-> 0]]
    /\ lastResult = "none"

SchedNext ==
    \/ ConsensusStart
    \/ ObserverShutdown
    \/ CommerceTick
    \/ SecurityTick
    \/ CommerceSlotReturn
    \/ SecuritySlotReturn
    \/ ConsensusShutdown
    \/ CtrlC
    \/ AdvanceTime

\* PoVERAValidator::start driven by its timers, the clock and the shutdown
\* broadcast.
SchedSpec == SchedInit /\ [][SchedNext]_vars

\* ------------------------------------------------------ stake functions

\* The inputs the stake functions are applied to: utilization in hundredths
\* of [0, 1], validator counts around the density limits (80, 150) and the
\* health threshold (21), base stakes from 0 up to one far above the ceiling.
\* On all of them the f64 product of the code, truncated, equals the exact
\* product truncated.
Utilizations == {0, 25, 50, 60, 100}
ValidatorCounts == {0, 20, 21, 50, 55, 80, 100, 150, 200}
BaseStakes == {0, 1, 10, 20, 100, 200, 10000}

\* A configuration read from a file whose min_validator_stake is b.
ConfigWithBaseStake(b) ==
    [ NewForNetwork("devnet") EXCEPT !.network.chain_spec.min_validator_stake = b ]

\* A PoVERAValidator whose network metrics hold utilization u and v active
\* validators.
StakeInit ==
    /\ \E b \in BaseStakes, u \in Utilizations, v \in ValidatorCounts :
          /\ config = ConfigWithBaseStake(b)
          /\ network_metrics = [ NewNetworkMetrics(ConfigWithBaseStake(b), 0) EXCEPT
                                    !.network_utilization = u, !.active_validators = v ]
          /\ state = NewConsensusState(ConfigWithBaseStake(b))
    /\ cli = [config_path |-> "custom.toml", network |-> "devnet",
              validator |-> FALSE, stake |-> 20]
    /\ mpc = "running"
    /\ created = TaskSet
    /\ performance_metrics = NewPerformanceMetrics
    /\ Idle

\* A call of validator.rs calculate_dynamic_stake_requirement, with the
\* network's utilization and validator count and the configuration's
\* min_validator_stake as its arguments.
CallCalculateDynamicStakeRequirement ==
    /\ LET u == network_metrics.network_utilization
           v == network_metrics.active_validators
           b == config.network.chain_spec.min_validator_stake
       IN  ret' = [fn   |-> "calculate_dynamic_stake_requirement",
                   args |-> << u, v, b >>,
                   val  |-> CalculateDynamicStakeRequirement(u, v, b)]
    /\ UNCHANGED << nodeVars, poveraVars, runVars, gossip, p2pVars >>

\* A call of PoVERAValidator::calculate_dynamic_stake_requirement.
CallSelfCalculateDynamicStakeRequirement ==
    /\ ret' = [fn   |-> "PoVERAValidator::calculate_dynamic_stake_requirement",
               args |-> << >>,
               val  |-> SelfCalculateDynamicStakeRequirement(config, network_metrics)]
    /\ UNCHANGED << nodeVars, poveraVars, runVars, gossip, p2pVars >>

StakeNext ==
    \/ CallCalculateDynamicStakeRequirement
    \/ CallSelfCalculateDynamicStakeRequirement

\* The two stake functions applied to every input of the grid.
StakeSpec == StakeInit /\ [][StakeNext]_vars

\* ---------------------------------------------------- metrics functions

\* Seconds of uptime and downtime, and blocks proposed and missed, a
\* validator's counters may hold: none yet; the tier thresholds 0.95, 0.90,
\* 0.85 and 0.75 themselves and values just off them; all up and all down.
UptimeSamples ==
    { << 0, 0 >>, << 3600, 0 >>, << 3240, 360 >>, << 95, 5 >>, << 85, 15 >>,
      << 3, 1 >>, << 2, 1 >>, << 0, 3600 >> }
BlockCounts ==
    { << 0, 0 >>, << 100, 0 >>, << 95, 5 >>, << 94, 6 >>, << 90, 10 >>, << 85, 15 >>,
      << 80, 20 >>, << 75, 25 >>, << 74, 26 >>, << 0, 10 >> }
BaseRewards == {0, 100, 1000, 1999}

\* A PoVERAValidator with these counters and network metrics.
MetricsInit ==
    /\ \E ud \in UptimeSamples, pm \in BlockCounts :
          performance_metrics = [ NewPerformanceMetrics EXCEPT
                                    !.total_uptime = ud[1], !.total_downtime = ud[2],
                                    !.blocks_proposed = pm[1], !.blocks_missed = pm[2] ]
    /\ \E u \in Utilizations, v \in ValidatorCounts :
          network_metrics = [ NewNetworkMetrics(NewForNetwork("devnet"), 0) EXCEPT
                                !.network_utilization = u, !.active_validators = v ]
    /\ config = NewForNetwork("devnet")
    /\ state = NewConsensusState(NewForNetwork("devnet"))
    /\ cli = [config_path |-> "none", network |-> "devnet",
              validator |-> FALSE, stake |-> 20]
    /\ mpc = "running"
    /\ created = TaskSet
    /\ Idle

CallCalculateUptimePercentage ==
    /\ ret' = [fn |-> "calculate_uptime_percentage", args |-> << >>,
               val |-> CalculateUptimePercentage(performance_metrics)]
    /\ UNCHANGED << nodeVars, poveraVars, runVars, gossip, p2pVars >>

CallCalculatePerformanceBonus ==
    /\ \E base_reward \in BaseRewards :
          ret' = [fn |-> "calculate_performance_bonus", args |-> << base_reward >>,
                  val |-> CalculatePerformanceBonus(performance_metrics, base_reward)]
    /\ UNCHANGED << nodeVars, poveraVars, runVars, gossip, p2pVars >>

CallCalculateNetworkHealth ==
    /\ ret' = [fn |-> "calculate_network_health", args |-> << >>,
               val |-> CalculateNetworkHealth(performance_metrics, network_metrics)]
    /\ UNCHANGED << nodeVars, poveraVars, runVars, gossip, p2pVars >>

MetricsNext ==
    \/ CallCalculateUptimePercentage
    \/ CallCalculatePerformanceBonus
    \/ CallCalculateNetworkHealth

\* The metrics functions of PoVERAValidator applied to every such validator.
MetricsSpec == MetricsInit /\ [][MetricsNext]_vars

\* A format_duration whose limits are inclusive (`secs <= 60`, ...);
\* FormatDurationByMagnitude does not survive it.
FormatDurationInclusive(duration) ==
    LET secs == duration.secs
    IN  IF secs <= 60
        THEN Decimal(secs) \o "s"
        ELSE IF secs <= 3600
        THEN Decimal(secs \div 60) \o "m " \o Decimal(secs % 60) \o "s"
        ELSE IF secs <= 86400
        THEN Decimal(secs \div 3600) \o "h " \o Decimal((secs % 3600) \div 60) \o "m"
        ELSE Decimal(secs \div 86400) \o "d " \o Decimal((secs % 86400) \div 3600) \o "h"

\* utils::format_duration; a Duration is whole seconds and nanoseconds, and
\* as_secs() is the whole seconds.
FormatDuration(duration) ==
    LET secs == duration.secs
    IN  IF secs < 60
        THEN Decimal(secs) \o "s"
        ELSE IF secs < 3600
        THEN Decimal(secs \div 60) \o "m " \o Decimal(secs % 60) \o "s"
        ELSE IF secs < 86400
        THEN LET hours   == secs \div 3600
                 minutes == (secs % 3600) \div 60
             IN  Decimal(hours) \o "h " \o Decimal(minutes) \o "m"
        ELSE LET days  == secs \div 86400
                 hours == (secs % 86400) \div 3600
             IN  Decimal(days) \o "d " \o Decimal(hours) \o "h"

\* The durations format_duration is applied to: the four of the unit test,
\* both sides of each limit, and a sub-second part.
FormattedDurations ==
    [ secs : {0, 30, 59, 60, 61, 90, 3599, 3600, 3661, 86399, 86400, 90061, 172799},
      nanos : {0, 999999999} ]

\* An address is a string, taken as the sequence of its characters.
\* `address.len()` counts bytes of UTF-8: one per ASCII character, two for
\* "é".
Utf8Len(c) == IF c = "é" THEN 2 ELSE 1

RECURSIVE ByteLen(_)
ByteLen(str) == IF str = << >> THEN 0 ELSE Utf8Len(Head(str)) + ByteLen(Tail(str))

StartsWith(str, prefix) ==
    Len(str) >= Len(prefix) /\ SubSeq(str, 1, Len(prefix)) = prefix

Omne1 == << "o", "m", "n", "e", "1" >>
ZeroX == << "0", "x" >>

\* OMNE_ALPHABET, and the characters char::is_ascii_hexdigit accepts.
OmneAlphabet ==
    { "1", "2", "3", "4", "5", "6", "7", "8", "9", "a", "b", "c", "d", "e", "f", "g",
      "h", "j", "k", "m", "n", "p", "q", "r", "s", "t", "u", "v", "w", "x", "y", "z" }
AsciiHexDigits ==
    { "0", "1", "2", "3", "4", "5", "6", "7", "8", "9", "a", "b", "c", "d", "e", "f",
      "A", "B", "C", "D", "E", "F" }

\* A validate_omne_address without the two length checks;
\* AddressAcceptedExactly does not survive it.
ValidateOmneAddressAnyLength(address) ==
    IF StartsWith(address, Omne1)
    THEN \A i \in 6..Len(address) : address[i] \in OmneAlphabet
    ELSE IF StartsWith(address, ZeroX)
    THEN \A i \in 3..Len(address) : address[i] \in AsciiHexDigits
    ELSE FALSE

\* utils::validate_omne_address.  The prefixes are ASCII, so that the slices
\* address[5..] and address[2..] start at a character.
ValidateOmneAddress(address) ==
    IF StartsWith(address, Omne1)
    THEN IF ByteLen(address) # 43
         THEN FALSE
         ELSE \A i \in 6..Len(address) : address[i] \in OmneAlphabet
    ELSE IF StartsWith(address, ZeroX)
    THEN IF ByteLen(address) # 42
         THEN FALSE
         ELSE \A i \in 3..Len(address) : address[i] \in AsciiHexDigits
    ELSE FALSE

\* The addresses of the unit test: 0x and forty hexadecimal digits; the same
\* without the prefix, two digits short, and ending in "g".
Hex16 == << "1", "2", "3", "4", "5", "6", "7", "8", "9", "0", "a", "b", "c", "d", "e", "f" >>
TestAddresses ==
    { ZeroX \o Hex16 \o Hex16 \o SubSeq(Hex16, 1, 8),
      Hex16 \o Hex16 \o SubSeq(Hex16, 1, 8),
      ZeroX \o Hex16 \o Hex16 \o SubSeq(Hex16, 1, 6),
      ZeroX \o Hex16 \o Hex16 \o SubSeq(Hex16, 1, 7) \o << "g" >> }

\* The addresses validate_omne_address is applied to: a prefix (native,
\* legacy, none, "omne2"), a run of one character and a last character, of
\* the right length, shorter and longer; and those of the unit test.
Addresses ==
    { prefix \o [i \in 1..n |-> fill] \o << last >> :
        prefix \in { Omne1, ZeroX, << >>, << "o", "m", "n", "e", "2" >> },
        fill \in { "a", "7" },
        n \in 36..40,
        last \in { "z", "f", "0", "o", "g", "F", "é" } }
      \cup TestAddresses

\* Durations in seconds the utils functions are applied to.
Durations == {0, 1, 30, 59, 60, 90, 360, 3240, 3599, 3600, 3661}

UtilsInit ==
    /\ config = NoConfig
    /\ cli = [config_path |-> "none", network |-> "devnet",
              validator |-> FALSE, stake |-> 20]
    /\ mpc = "load_config"
    /\ created = {}
    /\ state = NoConsensusState
    /\ performance_metrics = NewPerformanceMetrics
    /\ network_metrics = NoNetworkMetrics
    /\ Idle

CallCalculateUptime ==
    /\ \E total_time \in Durations, downtime \in Durations :
          ret' = [fn |-> "calculate_uptime", args |-> << total_time, downtime >>,
                  val |-> CalculateUptime(total_time, downtime)]
    /\ UNCHANGED << nodeVars, poveraVars, runVars, gossip, p2pVars >>

CallFormatDuration ==
    /\ \E duration \in FormattedDurations :
          ret' = [fn |-> "format_duration", args |-> << duration >>,
                  val |-> FormatDuration(duration)]
    /\ UNCHANGED << nodeVars, poveraVars, runVars, gossip, p2pVars >>

CallValidateOmneAddress ==
    /\ \E address \in Addresses :
          ret' = [fn |-> "validate_omne_address", args |-> << address >>,
                  val |-> ValidateOmneAddress(address)]
    /\ UNCHANGED << nodeVars, poveraVars, runVars, gossip, p2pVars >>

UtilsNext ==
    \/ CallCalculateUptime
    \/ CallFormatDuration
    \/ CallValidateOmneAddress

\* The functions of utils.rs applied to every input of their grids.
UtilsSpec == UtilsInit /\ [][UtilsNext]_vars

\* ------------------------------------------------------- gossip (p2p.rs)

\* Gossip messages as gossipsub hands them to message_id_fn: payload bytes,
\* topic, source peer and sequence number.
Payloads == { << >>, << 0 >>, << 0, 1 >> }
Topics == {"omne/consensus/commerce/3", "omne/transactions/3"}
Peers == {"peerA", "peerB"}
SequenceNumbers == {1, 2}
Messages ==
    [ data : Payloads, topic : Topics, source : Peers, sequence_number : SequenceNumbers ]

\* The SHA-256 digest of a byte string, taken to be free of collisions, and
\* its rendering in lower-case hexadecimal (`format!("{:x}", hash)`).
Sha256(bytes) == [sha256 |-> bytes]
LowerHex(hash) == [hex |-> hash]

\* gossipsub's own default id, source and sequence number;
\* MessageIdOfPayload does not survive it.
MessageIdFnDefault(message) ==
    LowerHex(Sha256(<< message.source, message.sequence_number >>))

\* The closure given to message_id_fn in create_gossipsub_behaviour.
MessageIdFn(message) == LowerHex(Sha256(message.data))

\* The P2P event loop is running on devnet; no message has been handled.
GossipInit ==
    /\ cli = [config_path |-> "none", network |-> "devnet",
              validator |-> FALSE, stake |-> 20]
    /\ config = OverrideConfig(NewForNetwork("devnet"), cli)
    /\ mpc = "running"
    /\ created = TaskSet
    /\ state = NewConsensusState(config)
    /\ performance_metrics = NewPerformanceMetrics
    /\ network_metrics = NewNetworkMetrics(config, 0)
    /\ task = [t \in TaskSet |-> IF t = "p2p" THEN "select" ELSE "spawned"]
    /\ subscribed = {"main"} \cup TaskSet
    /\ pending = {}
    /\ now = 0
    /\ timer = [l \in Layers |-> 0]
    /\ sleepDeadline = 0
    /\ shutdownAt = -1
    /\ timedOut = {}
    /\ started = [l \in Layers |-> 0]
    /\ inflight = [l \in Layers |-> 0]
    /\ evalStart = [l \in Layers |-> -1]
    /\ missed = [l \in Layers |-> [lo |-> -1, hi |-> -1, n |-> 0]]
    /\ lastResult = "none"
    /\ NoCalls

\* gossipsub handles a message, received from a peer or published by the
\* node itself, and computes its id with message_id_fn.
GossipMessage ==
    /\ task["p2p"] = "select"
    /\ Len(gossip) < MaxMessages
    /\ \E message \in Messages :
          gossip' = Append(gossip, [message |-> message, message_id |-> MessageIdFn(message)])
    /\ UNCHANGED << nodeVars, poveraVars, runVars, ret, p2pVars >>

GossipNext ==
    \/ GossipMessage

\* The message ids gossipsub computes for the messages it handles.
GossipSpec == GossipInit /\ [][GossipNext]_vars

\* ------------------------------------------------------ status functions

\* Prices per gigabyte a configuration may hold (units of 10^14 quar), and
\* the service counters: requests short of a gigabyte, one gigabyte, two and
\* a half; transactions and jobs.
PricesPerGb == {DefaultPricingPerGb, 3}
RequestCounts == {0, 999, 1000, 2500}
RelayedCounts == {0, 3}
SponsoredCounts == {0, 7}
JobCounts == {0, 2}

\* A devnet PoVERAValidator, observer or validator, with any of the four
\* services enabled and these counters.
StatusInit ==
    /\ \E validator \in BOOLEAN :
          cli = [config_path |-> "none", network |-> "devnet",
                 validator |-> validator, stake |-> 200]
    /\ \E oon, omp, relayer, paymaster \in BOOLEAN, price \in PricesPerGb :
          config = [ OverrideConfig(NewForNetwork("devnet"), cli) EXCEPT
                       !.oon.enable_oon = oon,
                       !.omp.enable_omp = omp,
                       !.omp.pricing_per_gb_quar = price,
                       !.orc20_relayer.enable_relayer = relayer,
                       !.paymaster.enable_paymaster = paymaster ]
    /\ \E requests \in RequestCounts, relayed \in RelayedCounts,
          sponsored \in SponsoredCounts, jobs \in JobCounts :
          performance_metrics = [ NewPerformanceMetrics EXCEPT
                                    !.omp_requests_served = requests,
                                    !.orc20_txs_relayed = relayed,
                                    !.paymaster_txs_sponsored = sponsored,
                                    !.oon_jobs_completed = jobs ]
    /\ state = NewConsensusState(config)
    /\ network_metrics = NewNetworkMetrics(config, 0)
    /\ mpc = "running"
    /\ created = TaskSet
    /\ Idle

CallCalculateMonthlyRevenueEstimate ==
    /\ ret' = [fn |-> "calculate_monthly_revenue_estimate", args |-> << >>,
               val |-> CalculateMonthlyRevenueEstimate(config, performance_metrics)]
    /\ UNCHANGED << nodeVars, poveraVars, runVars, gossip, p2pVars >>

\* get_status takes `&self`: it can write no field of the validator.
CallGetStatus ==
    /\ ret' = [fn |-> "get_status", args |-> << >>,
               val |-> GetStatus(config, state, performance_metrics)]
    /\ UNCHANGED << nodeVars, poveraVars, runVars, gossip, p2pVars >>

StatusNext ==
    \/ CallCalculateMonthlyRevenueEstimate
    \/ CallGetStatus
    \/ CallCalculateUptimePercentage

\* The status accessors of a validator, called in any order.
StatusSpec == StatusInit /\ [][StatusNext]_vars

\* ------------------------------------------------ network metrics update

\* The clock of the network metrics runs to MaxClock seconds, in steps of
\* these lengths.
MaxClock == 63
ClockSteps == {1, 29, 30, 31}

\* A PoVERAValidator as PoVERAValidator::new returns it at time 0, for each
\* network profile and for the private network, its uptime counters as in
\* UptimeSamples.
NetworkMetricsInit ==
    /\ cli = [config_path |-> "none", network |-> "devnet",
              validator |-> TRUE, stake |-> 200]
    /\ config \in { OverrideConfig(NewForNetwork(n), cli) : n \in Networks }
                    \cup { OverrideConfig(FileConfig("custom.toml"), cli) }
    /\ \E ud \in { << 0, 0 >>, << 3240, 360 >> } :
          performance_metrics = [ NewPerformanceMetrics EXCEPT
                                    !.total_uptime = ud[1], !.total_downtime = ud[2] ]
    /\ state = NewConsensusState(config)
    /\ network_metrics = NewNetworkMetrics(config, 0)
    /\ mpc = "running"
    /\ created = TaskSet
    /\ Idle

\* Time passes.
Elapse ==
    /\ \E d \in ClockSteps :
          /\ now + d <= MaxClock
          /\ now' = now + d
    /\ UNCHANGED << nodeVars, poveraVars, task, subscribed, pending, timer,
                    sleepDeadline, shutdownAt, timedOut, started, inflight, evalStart,
                    missed, lastResult, callVars >>

CallUpdateNetworkMetrics ==
    /\ network_metrics' = UpdateNetworkMetrics(config, performance_metrics,
                                               network_metrics, now)
    /\ ret' = [fn |-> "update_network_metrics", args |-> << now >>, val |-> "Ok"]
    /\ UNCHANGED << nodeVars, state, performance_metrics, runVars, gossip, p2pVars >>

NetworkMetricsNext ==
    \/ Elapse
    \/ CallUpdateNetworkMetrics

\* update_network_metrics called at any times.
NetworkMetricsSpec == NetworkMetricsInit /\ [][NetworkMetricsNext]_vars

\* ------------------------------------------------ the P2P router (p2p.rs)

\* A configuration file of a private network that admits a single peer and
\* names three bootstrap entries, the second of them a host:port pair.
PrivateNetworkConfig ==
    [ FileConfig("custom.toml") EXCEPT
        !.p2p.max_peers = 1,
        !.p2p.bootstrap_peers = << "/ip4/10.0.0.7/tcp/30303", "boot.example:30303",
                                   "/ip4/127.0.0.1/tcp/30303" >> ]

P2PConfigs == { NewForNetwork(n) : n \in Networks } \cup { PrivateNetworkConfig }

\* The transactions gossipsub delivers to the event loop: two payloads,
\* published by peerA on the network's transaction topic.
DeliveredMessages ==
    { m \in [ data : Payloads \ { << >> }, topic : { TopicNames(config.network.id)[3] },
              source : {"peerA"}, sequence_number : {1} ] : m.topic \in swarm.topics }

\* The swarm's connections once a connection to `peer` is established: the
\* swarm is built with `libp2p::swarm::Config::with_tokio_executor()` and a
\* behaviour of ping, identify, Kademlia, gossipsub and mDNS, none of which
\* limits connections, and config.p2p.max_peers is read by P2PNetwork::new
\* only, for a log line.
ConnectionsAfterEstablished(c, connections, peer) == connections \cup {peer}

\* SwarmEvent::ConnectionEstablished: the connection exists when the event is
\* handed to handle_swarm_event_static, whose arm logs it.
ConnectionEstablished ==
    /\ task["p2p"] = "select"
    /\ swarm.stored
    /\ \E peer \in Peers \ swarm.connections :
          swarm' = [swarm EXCEPT !.connections =
                        ConnectionsAfterEstablished(config, swarm.connections, peer)]
    /\ eventResult' = "Ok"
    /\ task' = [task EXCEPT !["p2p"] = "event"]
    /\ UNCHANGED << nodeVars, poveraVars, subscribed, pending, now, timer,
                    sleepDeadline, shutdownAt, timedOut, started, inflight, evalStart,
                    missed, lastResult, ret, gossip, dispatched >>

\* SwarmEvent::ConnectionClosed: the arm logs it.
ConnectionClosed ==
    /\ task["p2p"] = "select"
    /\ swarm.stored
    /\ \E peer \in swarm.connections :
          swarm' = [swarm EXCEPT !.connections = @ \ {peer}]
    /\ eventResult' = "Ok"
    /\ task' = [task EXCEPT !["p2p"] = "event"]
    /\ UNCHANGED << nodeVars, poveraVars, subscribed, pending, now, timer,
                    sleepDeadline, shutdownAt, timedOut, started, inflight, evalStart,
                    missed, lastResult, ret, gossip, dispatched >>

\* A handler that routes every message it is given to the consensus
\* validator; DuplicateNotDispatched does not survive it.
HandleGossipsubEventRouted(routed, event) == Append(routed, event)

\* handle_gossipsub_event_static on gossipsub::Event::Message: the messages
\* handed to the consensus validator afterwards.  The arm writes a debug line
\* and routes nothing ("TODO: Route message to consensus validator").
HandleGossipsubEvent(routed, event) == routed

\* gossipsub delivers a message forwarded by a connected peer:
\* gossipsub::Event::Message { propagation_source, message_id, message }, the
\* id computed by message_id_fn.  gossipsub remembers the ids it has seen for
\* a limited time only, so that an id delivered before may be delivered again.
GossipsubMessage ==
    /\ task["p2p"] = "select"
    /\ swarm.stored
    /\ Len(gossip) < MaxMessages
    /\ \E message \in DeliveredMessages, peer \in swarm.connections, res \in EventResults :
          LET event == [propagation_source |-> peer, message_id |-> MessageIdFn(message),
                        message |-> message]
          IN  /\ gossip' = Append(gossip, [message |-> message,
                                           message_id |-> event.message_id,
                                           propagation_source |-> peer,
                                           result |-> res])
              /\ dispatched' = HandleGossipsubEvent(dispatched, event)
              /\ eventResult' = res
    /\ task' = [task EXCEPT !["p2p"] = "event"]
    /\ UNCHANGED << nodeVars, poveraVars, subscribed, pending, now, timer,
                    sleepDeadline, shutdownAt, timedOut, started, inflight, evalStart,
                    missed, lastResult, ret, swarm >>

\* ValidatorNode::start has spawned the tasks; the P2P task has not run yet.
P2PInit ==
    /\ config \in P2PConfigs
    /\ cli = [config_path |-> "none", network |-> "devnet",
              validator |-> FALSE, stake |-> 20]
    /\ mpc = "running"
    /\ created = TaskSet
    /\ state = NewConsensusState(config)
    /\ performance_metrics = NewPerformanceMetrics
    /\ network_metrics = NewNetworkMetrics(config, 0)
    /\ task = [t \in TaskSet |-> "spawned"]
    /\ subscribed = {"main"} \cup TaskSet
    /\ pending = {}
    /\ now = 0
    /\ timer = [l \in Layers |-> 0]
    /\ sleepDeadline = 0
    /\ shutdownAt = -1
    /\ timedOut = {}
    /\ started = [l \in Layers |-> 0]
    /\ inflight = [l \in Layers |-> 0]
    /\ evalStart = [l \in Layers |-> -1]
    /\ missed = [l \in Layers |-> [lo |-> -1, hi |-> -1, n |-> 0]]
    /\ lastResult = "none"
    /\ NoCalls

P2PNext ==
    \/ P2PStart
    \/ P2PEvent
    \/ ConnectionEstablished
    \/ ConnectionClosed
    \/ GossipsubMessage
    \/ P2PEventReturn
    \/ P2PShutdown
    \/ CtrlC

\* The P2P task: init_swarm, the event loop with the swarm's events, and the
\* shutdown signal.
P2PSpec == P2PInit /\ [][P2PNext]_vars

\* A devnet validator whose consensus and P2P tasks have been spawned.
QueryInit ==
    /\ cli = [config_path |-> "none", network |-> "devnet",
              validator |-> TRUE, stake |-> 200]
    /\ config = OverrideConfig(NewForNetwork("devnet"), cli)
    /\ mpc = "running"
    /\ created = TaskSet
    /\ state = NewConsensusState(config)
    /\ performance_metrics = NewPerformanceMetrics
    /\ network_metrics = NewNetworkMetrics(config, 0)
    /\ task = [t \in TaskSet |-> "spawned"]
    /\ subscribed = {"main"} \cup TaskSet
    /\ pending = {}
    /\ now = 0
    /\ timer = [l \in Layers |-> 0]
    /\ sleepDeadline = 0
    /\ shutdownAt = -1
    /\ timedOut = {}
    /\ started = [l \in Layers |-> 0]
    /\ inflight = [l \in Layers |-> 0]
    /\ evalStart = [l \in Layers |-> -1]
    /\ missed = [l \in Layers |-> [lo |-> -1, hi |-> -1, n |-> 0]]
    /\ lastResult = "none"
    /\ NoCalls

QueryNext ==
    \/ ConsensusStart
    \/ CommerceTick
    \/ SecurityTick
    \/ CommerceSlotReturn
    \/ SecuritySlotReturn
    \/ P2PStart
    \/ ConnectionEstablished
    \/ GossipsubMessage
    \/ P2PEventReturn
    \/ CallGetStatus
    \/ AdvanceTime

\* The validator's slots, the gossip it receives and status queries,
\* interleaved.
QuerySpec == QueryInit /\ [][QueryNext]_vars

\* The running node with its tasks scheduled fairly: a spawned task is polled,
\* a unit of work that was started returns, and a select! whose shutdown
\* branch is ready again and again takes it (select! polls its ready branches
\* in random order).
TaskFairness ==
    /\ WF_vars(ConsensusStart) /\ WF_vars(P2PStart) /\ WF_vars(RpcStart)
    /\ WF_vars(CommerceSlotReturn) /\ WF_vars(SecuritySlotReturn)
    /\ WF_vars(P2PEventReturn) /\ WF_vars(RpcAcceptReturn)
    /\ SF_vars(ObserverShutdown) /\ SF_vars(ConsensusShutdown)
    /\ SF_vars(P2PShutdown)
    /\ SF_vars(RpcDisabledShutdown) /\ SF_vars(RpcShutdown)

FairSpec == Spec /\ TaskFairness

\* The running node where only ValidatorNode::start itself and the clock are
\* sure to progress; the three tasks may stop anywhere for ever.
NodeFairness ==
    /\ WF_vars(\E t \in TaskSet : WaitJoin(t) \/ WaitTimeout(t))
    /\ WF_vars(AdvanceTime)

NodeFairSpec == Spec /\ NodeFairness

\* ------------------------------------------------- JSON-RPC (rpc.rs)

\* Option<T>.
None == [some |-> FALSE]
Some(x) == [some |-> TRUE, v |-> x]

\* serde_json::Value, as far as the handlers look at it: a number is a
\* non-negative integer (PosInt), a negative integer (NegInt) or a float.
JsonValue(type, n, str) == [t |-> type, n |-> n, s |-> str]

JsonNull == JsonValue("Null", 0, "")

\* Value::as_u64: Some only for a number stored as a non-negative integer.
AsU64(value) == IF value.t = "PosInt" THEN Some(value.n) ELSE None

BlockHashPlaceholder ==
    "bh_000000000000000000000000000000000000000000000000000000000000000000"

\* get_rpc_methods: the registered method names.
RpcMethods ==
    { "validator_status", "consensus_status", "p2p_status", "network_info",
      "peer_list", "latest_block", "block_by_height", "health", "version" }

HandlerOk(value) == [ok |-> TRUE, value |-> value, err |-> ""]
HandlerErr(message) == [ok |-> FALSE, value |-> JsonNull, err |-> message]

\* rpc_block_by_height.
RpcBlockByHeight(params, t) ==
    IF Len(params) = 0
    THEN HandlerErr("Missing height parameter")
    ELSE IF ~AsU64(params[1]).some
         THEN HandlerErr("Invalid height parameter")
         ELSE HandlerOk([height |-> AsU64(params[1]).v,
                         hash |-> BlockHashPlaceholder, timestamp |-> t])

\* The handler registered under a method name, applied: the rpc_* functions.
\* (network_info's genesis_hash, a constant of the profile, is left out.)
Handle(c, method, params, t) ==
    CASE method = "validator_status" ->
            HandlerOk([is_validator |-> c.validator.is_validator,
                       stake |-> c.validator.validator_stake,
                       is_active |-> TRUE, uptime |-> "99.9%"])
      [] method = "consensus_status" ->
            HandlerOk([commerce_epoch |-> 0, security_epoch |-> 0,
                       commerce_height |-> 0, security_height |-> 0])
      [] method = "p2p_status" ->
            HandlerOk([connected_peers |-> 0, network_id |-> c.network.id,
                       local_peer_id |-> "placeholder"])
      [] method = "network_info" ->
            HandlerOk([network_name |-> c.network.name, network_id |-> c.network.id,
                       commerce_block_time |-> c.network.chain_spec.commerce_block_time,
                       security_block_time |-> c.network.chain_spec.security_block_time])
      [] method = "peer_list" -> HandlerOk([peers |-> << >>])
      [] method = "latest_block" ->
            HandlerOk([height |-> 0, hash |-> BlockHashPlaceholder, timestamp |-> t])
      [] method = "block_by_height" -> RpcBlockByHeight(params, t)
      [] method = "health" -> HandlerOk([status |-> "healthy", timestamp |-> t])
      [] method = "version" ->
            HandlerOk([version |-> "CARGO_PKG_VERSION", name |-> "CARGO_PKG_NAME",
                       git_commit |-> "unknown"])

JsonRpcError(code, message) == [code |-> code, message |-> message, data |-> None]

ErrorResponse(code, message, id) ==
    [jsonrpc |-> "2.0", result |-> None, error |-> Some(JsonRpcError(code, message)),
     id |-> id]

\* A process_request that looks the method up before it validates the
\* version; ProcessRequestAnswers does not survive it.
ProcessRequestLookupFirst(c, request, t) ==
    LET id == request.id
        params == IF request.params.some THEN request.params.v ELSE << >>
    IN  IF request.method \notin RpcMethods
        THEN ErrorResponse(-32601, "Method not found", id)
        ELSE IF request.jsonrpc # "2.0"
        THEN ErrorResponse(-32600, "Invalid Request", id)
        ELSE LET handled == Handle(c, request.method, params, t)
             IN  IF handled.ok
                 THEN [jsonrpc |-> "2.0", result |-> Some(handled.value),
                       error |-> None, id |-> id]
                 ELSE ErrorResponse(-32603, "Internal error: " \o handled.err, id)

\* RpcServer::process_request, called at time t.
ProcessRequest(c, request, t) ==
    LET id == request.id
        params == IF request.params.some THEN request.params.v ELSE << >>
    IN  IF request.jsonrpc # "2.0"
        THEN ErrorResponse(-32600, "Invalid Request", id)
        ELSE IF request.method \notin RpcMethods
        THEN ErrorResponse(-32601, "Method not found", id)
        ELSE LET handled == Handle(c, request.method, params, t)
             IN  IF handled.ok
                 THEN [jsonrpc |-> "2.0", result |-> Some(handled.value),
                       error |-> None, id |-> id]
                 ELSE ErrorResponse(-32603, "Internal error: " \o handled.err, id)

\* The requests the model sends (JsonRpcRequest: jsonrpc, method, params, id).
JsonVersions == {"2.0", "1.0", ""}
RequestMethods == RpcMethods \cup {"block_by_hash", ""}
ParamLists ==
    { None, Some(<< >>),
      Some(<< JsonValue("PosInt", 5, "") >>),
      Some(<< JsonValue("PosInt", 0, "") >>),
      Some(<< JsonValue("NegInt", -1, "") >>),
      Some(<< JsonValue("Float", 5, "") >>),
      Some(<< JsonValue("String", 0, "5") >>),
      Some(<< JsonNull >>),
      Some(<< JsonValue("PosInt", 7, ""), JsonValue("String", 0, "x") >>) }
RequestIds == { None, Some(JsonValue("PosInt", 1, "")), Some(JsonValue("String", 0, "abc")) }
Requests ==
    [jsonrpc : JsonVersions, method : RequestMethods, params : ParamLists,
     id : RequestIds]

RpcInit ==
    /\ cli = [config_path |-> "none", network |-> "devnet",
              validator |-> TRUE, stake |-> 200]
    /\ config \in { OverrideConfig(NewForNetwork(n), cli) : n \in Networks }
                    \cup { FileConfig("custom.toml") }
    /\ performance_metrics = NewPerformanceMetrics
    /\ state = NewConsensusState(config)
    /\ network_metrics = NewNetworkMetrics(config, 0)
    /\ mpc = "running"
    /\ created = TaskSet
    /\ Idle

CallProcessRequest ==
    /\ \E request \in Requests :
          ret' = [fn |-> "process_request", args |-> << request >>,
                  val |-> ProcessRequest(config, request, now)]
    /\ UNCHANGED << nodeVars, poveraVars, runVars, gossip, p2pVars >>

RpcNext == CallProcessRequest

\* process_request called with any requests.
RpcSpec == RpcInit /\ [][RpcNext]_vars

\* ------------------------------------------------------------ properties

\* A slot evaluation of some layer returns an error in this step.
SlotFailed ==
    /\ task["consensus"] \in Layers
    /\ task'["consensus"] # task["consensus"]
    /\ lastResult' = "Err"

\* C1: within PoVERAValidator::start at most one commerce evaluation and at
\* most one security evaluation is in flight at any time, because the loop
\* awaits each evaluation inside its select! branch.
C1_AtMostOneEvaluationInFlight == \A l \in Layers : inflight[l] <= 1

\* A second commerce evaluation is in flight while a further commerce tick
\* is already due.
C1_Witness ==
    /\ started["commerce"] >= 2
    /\ inflight["commerce"] = 1
    /\ TickReady("commerce")

\* C2: ticks of a layer that fall due while an evaluation of that layer is
\* still running are coalesced: once that evaluation has returned, at most
\* one evaluation is started on account of all of them.
C2_MissedTicksCoalesced == \A l \in Layers : missed[l].n <= 1

\* C3: a node that is not a validator never evaluates a slot; its consensus
\* task only waits for the shutdown message and returns Ok once it has it.
C3_ObserverNeverEvaluates ==
    ~config.validator.is_validator =>
        /\ \A l \in Layers : started[l] = 0 /\ inflight[l] = 0
        /\ task["consensus"] \in {"spawned", "observer", "done"}
        /\ task["consensus"] = "done" => shutdownAt >= 0

\* An observer's consensus task has returned after commerce slots' worth of
\* time has passed.
C3_Witness ==
    /\ ~config.validator.is_validator
    /\ task["consensus"] = "done"
    /\ now >= Period("commerce")

\* C4: an error returned by a slot evaluation does not end the consensus
\* loop: the task never fails, and the failing evaluation leaves the loop at
\* its select! with both timers as they were.
C4_SlotErrorsNotFatal ==
    /\ [](task["consensus"] # "failed")
    /\ [][SlotFailed => task'["consensus"] = "select" /\ timer' = timer]_vars

\* After a failed evaluation, with both layers evaluated at least once, a
\* later tick is being processed.
C4_Witness ==
    /\ lastResult = "Err"
    /\ task["consensus"] \in Layers
    /\ \A l \in Layers : started[l] >= 1

\* C5: every slot evaluation that fails adds one to
\* PerformanceMetrics.blocks_missed.
C5_FailedSlotCountedAsMissed ==
    [][SlotFailed =>
         performance_metrics'.blocks_missed = performance_metrics.blocks_missed + 1]_vars

\* The pcs at which a task's loop (or its wait in observer / no-HTTP mode)
\* is running.
InLoop(t) == task[t] \in {"observer", "disabled", "select", "commerce", "security", "event", "accept"}

\* C6: once the shutdown signal has been broadcast, every task whose loop is
\* running eventually observes it and returns Ok; the signal is taken only
\* at the select point (never in the middle of a unit of work), and a task
\* that has observed it starts nothing more.
C6_ShutdownObserved ==
    /\ \A t \in TaskSet : (t \in pending /\ InLoop(t)) ~> (task[t] = "done")
    /\ [][\A t \in TaskSet :
            (t \in pending /\ t \notin pending') =>
                /\ task[t] \in {"observer", "disabled", "select"}
                /\ task'[t] = "done"
                /\ inflight' = inflight /\ started' = started]_vars
    /\ [][\A t \in TaskSet : task[t] = "done" =>
                /\ task'[t] = "done"
                /\ t = "consensus" => started' = started /\ inflight' = inflight]_vars
    /\ [](task["consensus"] = "done" => \A l \in Layers : inflight[l] = 0)

\* The shutdown has been broadcast and all three tasks have returned Ok, the
\* consensus loop after evaluating a slot of each layer.
C6_Witness ==
    /\ shutdownAt >= 0
    /\ \A t \in TaskSet : task[t] = "done" /\ t \notin pending
    /\ \A l \in Layers : started[l] >= 1

\* C7: once the shutdown has been initiated, ValidatorNode::start returns
\* Ok whatever the tasks do: every wait takes place in turn, and by the
\* return each task has either been joined or been reported as timed out.
C7_NodeStartReturns ==
    /\ (shutdownAt >= 0) ~> (mpc = "done")
    /\ [][(Waiting /\ mpc' # mpc) => \E t \in TaskSet : mpc = WaitPc(t) /\ mpc' = AfterWait(t)]_vars
    /\ [](mpc = "done" => \A t \in TaskSet : Joined(t) \/ t \in timedOut)

\* ValidatorNode::start has returned although none of the three tasks ever
\* terminated.
C7_Witness ==
    /\ mpc = "done"
    /\ timedOut = TaskSet
    /\ \A t \in TaskSet : ~Joined(t)

\* C8: no subsystem is waited on later than ShutdownTimeout after the
\* shutdown broadcast.
C8_GraceMeasuredFromBroadcast ==
    Waiting => now <= shutdownAt + ShutdownTimeout

\* C9: in validator mode a declared stake below the network's minimum, be
\* it the chain specification's min_validator_stake or the dynamic stake
\* requirement, makes start-up fail before any subsystem is created or its
\* task spawned.
C9_LowStakeRefused ==
    (/\ cli.validator
     /\ ConfigLoads(cli)
     /\ \/ cli.stake < LoadedConfig(cli).network.chain_spec.min_validator_stake
        \/ cli.stake < RequiredStake(LoadedConfig(cli)))
    => /\ created = {}
       /\ \A t \in TaskSet : task[t] = "unspawned"

\* C10: whenever ValidatorNode::new has built the PoVERAValidator of a
\* validator, its state is active and its stake is at least the dynamic
\* stake requirement held in its network metrics.
C10_ActiveStakeMeetsRequirement ==
    ("consensus" \in created /\ config.validator.is_validator) =>
        /\ state.is_active
        /\ state.stake >= network_metrics.dynamic_stake_requirement

\* C11: new_for_network returns an error, and no configuration, for every
\* network name other than "mainnet", "testnet" and "devnet"; for each of
\* these three it succeeds with the configuration of that network.
C11_UnknownNetworkRefused ==
    (cli.config_path = "none" /\ mpc # "load_config") =>
        IF cli.network \in {"mainnet", "testnet", "devnet"}
        THEN config # NoConfig /\ config.network.name = cli.network
        ELSE mpc = "failed" /\ config = NoConfig /\ created = {}

\* Start-up has failed on a network name that differs from a known one only
\* in its capital letter.
C11_Witness ==
    /\ cli.config_path = "none"
    /\ cli.network = "Mainnet"
    /\ mpc = "failed"
    /\ config = NoConfig

\* C12: the network profile fixes the chain specification (devnet 3 / 60 /
\* 1 / 10 with id 3, mainnet 3 / 540 / 20 / 1000 with id 1, testnet 3 / 540
\* / 10 / 100 with id 2), and every tick of the scheduler's commerce and
\* security timers moves the timer's deadline on by exactly the profile's
\* commerce and security block time.
C12_ProfileFixesChainSpec ==
    /\ [](LET Profile(id, c, s, m, v) ==
                  /\ config.network.id = id
                  /\ config.network.chain_spec =
                        [commerce_block_time |-> c, security_block_time |-> s,
                         min_validator_stake |-> m, max_validators |-> v]
          IN  /\ cli.network = "devnet"  => Profile(3, 3, 60, 1, 10)
              /\ cli.network = "mainnet" => Profile(1, 3, 540, 20, 1000)
              /\ cli.network = "testnet" => Profile(2, 3, 540, 10, 100))
    /\ [][LET Interval(l) ==
                  CASE cli.network = "devnet"  -> IF l = "commerce" THEN 3 ELSE 60
                    [] cli.network = "mainnet" -> IF l = "commerce" THEN 3 ELSE 540
                    [] cli.network = "testnet" -> IF l = "commerce" THEN 3 ELSE 540
          IN  \A l \in Layers :
                 timer'[l] # timer[l] /\ task["consensus"] = "select"
                    => timer'[l] - timer[l] = Interval(l)]_vars

\* On devnet the commerce timer has ticked twice and the security timer
\* once.
C12_Witness ==
    /\ config.network.name = "devnet"
    /\ timer["commerce"] = 6
    /\ timer["security"] = 60

\* C13: for every utilization in [0, 1], every number of active validators
\* and every base stake, the dynamic stake requirement returned by either
\* calculate_dynamic_stake_requirement lies in [15, 150].
C13_StakeRequirementInRange ==
    ret.fn \in {"calculate_dynamic_stake_requirement",
                "PoVERAValidator::calculate_dynamic_stake_requirement"}
        => ret.val >= 15 /\ ret.val <= 150

\* The requirement was computed for a base stake whose product lies far
\* above the ceiling.
C13_Witness ==
    /\ ret.fn = "PoVERAValidator::calculate_dynamic_stake_requirement"
    /\ config.network.chain_spec.min_validator_stake = 10000
    /\ ret.val = 150

\* C14: the dynamic stake requirement is non-decreasing in each input: with
\* the base stake fixed, a higher utilization (same validator count) or a
\* higher validator count (same utilization) never gives a lower result,
\* truncation and clamp included.
C14_StakeRequirementMonotone ==
    ret.fn = "calculate_dynamic_stake_requirement" =>
        LET u == ret.args[1]
            v == ret.args[2]
            b == ret.args[3]
        IN  /\ \A u2 \in Utilizations :
                  u2 >= u => CalculateDynamicStakeRequirement(u2, v, b) >= ret.val
            /\ \A v2 \in ValidatorCounts :
                  v2 >= v => CalculateDynamicStakeRequirement(u, v2, b) >= ret.val

\* A result in the unclamped region, with higher utilizations and higher
\* validator counts left to compare it with.
C14_Witness ==
    /\ ret.fn = "calculate_dynamic_stake_requirement"
    /\ ret.args = << 25, 80, 20 >>
    /\ ret.val = 20

\* C15: the start-up function and the periodic recomputation are the same
\* function: on every input both return
\* clamp(trunc(base * clamp(1 + utilization, 0.5, 2.0)
\*                  * clamp(active_validators / 100, 0.8, 1.5)), 15, 150).
C15_StakeFunctionsAgree ==
    LET Between(x, lo, hi) == IF x < lo THEN lo ELSE IF x > hi THEN hi ELSE x
        Formula(u, v, b) ==
            Between((b * Between(100 + u, 50, 200) * Between(v, 80, 150)) \div 10000,
                    15, 150)
    IN  /\ ret.fn = "calculate_dynamic_stake_requirement" =>
              ret.val = Formula(ret.args[1], ret.args[2], ret.args[3])
        /\ ret.fn = "PoVERAValidator::calculate_dynamic_stake_requirement" =>
              /\ ret.val = Formula(network_metrics.network_utilization,
                                   network_metrics.active_validators,
                                   config.network.chain_spec.min_validator_stake)
              /\ ret.val = CalculateDynamicStakeRequirement(
                                   network_metrics.network_utilization,
                                   network_metrics.active_validators,
                                   config.network.chain_spec.min_validator_stake)

\* The periodic recomputation returned the floor for a base stake whose
\* product lies below it.
C15_Witness ==
    /\ ret.fn = "PoVERAValidator::calculate_dynamic_stake_requirement"
    /\ config.network.chain_spec.min_validator_stake = 10
    /\ network_metrics.network_utilization = 60
    /\ network_metrics.active_validators = 55
    /\ ret.val = 15

\* C16: calculate_performance_bonus is the step function of
\* score = uptime fraction * block accuracy (accuracy 1 when no block was
\* proposed or missed): 20% of base_reward from 0.95, 15% from 0.90, 10%
\* from 0.85, 5% from 0.75, otherwise nothing; so (95, 5) at 100% uptime
\* gives 20%, (80, 20) gives 5%, and a node without slots or uptime samples
\* gets 20%.
C16_PerformanceBonusTiers ==
    ret.fn = "calculate_performance_bonus" =>
        LET pm       == performance_metrics
            sampled  == pm.total_uptime + pm.total_downtime > 0
            slots    == pm.blocks_proposed + pm.blocks_missed
            \* score = sn / sd
            sn       == (IF sampled THEN pm.total_uptime ELSE 1)
                        * (IF slots > 0 THEN pm.blocks_proposed ELSE 1)
            sd       == (IF sampled THEN pm.total_uptime + pm.total_downtime ELSE 1)
                        * (IF slots > 0 THEN slots ELSE 1)
            From(h)  == sn * 100 >= h * sd
            percent  == IF From(95) THEN 20 ELSE IF From(90) THEN 15
                        ELSE IF From(85) THEN 10 ELSE IF From(75) THEN 5 ELSE 0
            base     == ret.args[1]
            Counts(p, m) == pm.blocks_proposed = p /\ pm.blocks_missed = m
        IN  /\ ret.val = (base * percent) \div 100
            /\ Counts(95, 5) /\ pm.total_downtime = 0 => ret.val = (base * 20) \div 100
            /\ Counts(80, 20) /\ pm.total_downtime = 0 => ret.val = (base * 5) \div 100
            /\ Counts(0, 0) /\ ~sampled => ret.val = (base * 20) \div 100

\* The bonus of a validator that proposed 80 blocks and missed 20 with no
\* downtime, for a base reward of 1000.
C16_Witness ==
    /\ ret.fn = "calculate_performance_bonus"
    /\ ret.args = << 1000 >>
    /\ performance_metrics.blocks_proposed = 80
    /\ performance_metrics.blocks_missed = 20
    /\ performance_metrics.total_downtime = 0
    /\ ret.val = 50

\* C17: calculate_uptime_percentage is 100 when no time has been sampled
\* and total_uptime / (total_uptime + total_downtime) * 100 otherwise; it
\* lies in [0, 100]; 3600 s of which 360 s are downtime give 90.
C17_UptimePercentage ==
    ret.fn = "calculate_uptime_percentage" =>
        LET up   == performance_metrics.total_uptime
            down == performance_metrics.total_downtime
        IN  /\ ret.val.den > 0
            /\ up + down = 0 => ret.val.num = 100 * ret.val.den
            /\ up + down > 0 => ret.val.num * (up + down) = up * 100 * ret.val.den
            /\ ret.val.num >= 0 /\ ret.val.num <= 100 * ret.val.den
            /\ up = 3240 /\ down = 360 => ret.val.num = 90 * ret.val.den

\* The uptime of a node with 3600 s sampled, 360 s of them down.
C17_Witness ==
    /\ ret.fn = "calculate_uptime_percentage"
    /\ performance_metrics.total_uptime = 3240
    /\ performance_metrics.total_downtime = 360
    /\ ret.val = [num |-> 90, den |-> 1]

\* C18: utils::calculate_uptime(total_time, downtime) is 100 whenever
\* total_time is zero, and otherwise (total_time - downtime) / total_time *
\* 100 with the subtraction saturating at zero; it lies in [0, 100], is 0
\* when downtime >= total_time, and calculate_uptime(3600 s, 360 s) = 90.
C18_UtilsUptime ==
    ret.fn = "calculate_uptime" =>
        LET total == ret.args[1]
            down  == ret.args[2]
        IN  /\ ret.val.den > 0
            /\ total = 0 => ret.val.num = 100 * ret.val.den
            /\ total > 0 /\ down < total =>
                  ret.val.num * total = (total - down) * 100 * ret.val.den
            /\ total > 0 /\ down >= total => ret.val.num = 0
            /\ ret.val.num >= 0 /\ ret.val.num <= 100 * ret.val.den
            /\ total = 3600 /\ down = 360 => ret.val.num = 90 * ret.val.den

\* More downtime than total time: the subtraction saturates.
C18_Witness ==
    /\ ret.fn = "calculate_uptime"
    /\ ret.args = << 360, 3600 >>
    /\ ret.val = [num |-> 0, den |-> 1]

\* C19: network_health is the mean of the uptime percentage, the validator
\* count score (100 from 21 active validators, else 50) and the utilization
\* score (1 - |utilization - 0.5|) * 100; it lies in [0, 100] and is 100
\* exactly when utilization = 0.5, active_validators >= 21 and the uptime
\* percentage is 100.
C19_NetworkHealthRange ==
    ret.fn = "calculate_network_health" =>
        LET up     == performance_metrics.total_uptime
            total  == performance_metrics.total_uptime + performance_metrics.total_downtime
            u      == network_metrics.network_utilization
            vscore == IF network_metrics.active_validators >= 21 THEN 100 ELSE 50
            uscore == IF u >= 50 THEN 100 - (u - 50) ELSE 100 - (50 - u)
            \* uptime percentage = pn / pd
            pn     == IF total = 0 THEN 100 ELSE up * 100
            pd     == IF total = 0 THEN 1 ELSE total
        IN  /\ ret.val.den > 0
            /\ ret.val.num * 3 * pd = (pn + (vscore + uscore) * pd) * ret.val.den
            /\ ret.val.num >= 0 /\ ret.val.num <= 100 * ret.val.den
            /\ ret.val.num = 100 * ret.val.den
                  <=> (u = 50 /\ network_metrics.active_validators >= 21 /\ pn = 100 * pd)

\* The health of a fully available node at utilization 0.5 among exactly 21
\* validators.
C19_Witness ==
    /\ ret.fn = "calculate_network_health"
    /\ network_metrics.network_utilization = 50
    /\ network_metrics.active_validators = 21
    /\ performance_metrics.total_uptime = 3600
    /\ performance_metrics.total_downtime = 0
    /\ ret.val = [num |-> 100, den |-> 1]

\* C20: the message id is a function of the payload bytes alone: two
\* messages with equal payload have equal ids whatever their topic, source,
\* sequence number and order of arrival, the same payload handled twice
\* included.
C20_MessageIdOfPayload ==
    \A i \in DOMAIN gossip, j \in DOMAIN gossip :
        gossip[i].message.data = gossip[j].message.data
            => gossip[i].message_id = gossip[j].message_id

\* Two messages with the same payload that differ in topic, source and
\* sequence number have been handled.
C20_Witness ==
    /\ Len(gossip) = 2
    /\ gossip[1].message.data = gossip[2].message.data
    /\ gossip[1].message.topic # gossip[2].message.topic
    /\ gossip[1].message.source # gossip[2].message.source
    /\ gossip[1].message.sequence_number # gossip[2].message.sequence_number
    /\ gossip[1].message_id = gossip[2].message_id

\* C21: a gossip message is handed to the consensus validator only if no
\* message with the same message_id was delivered before it, whichever peer
\* forwarded it, so that no message_id is dispatched twice.
C21_DuplicateNotDispatched ==
    [][ dispatched' # dispatched =>
          /\ Len(dispatched') = Len(dispatched) + 1
          /\ SubSeq(dispatched', 1, Len(dispatched)) = dispatched
          /\ \A k \in DOMAIN gossip :
                gossip[k].message_id # dispatched'[Len(dispatched')].message_id ]_vars

\* The same payload has been delivered twice, by two different peers, the
\* handler has returned both times, and nothing was dispatched twice.
C21_Witness ==
    /\ Len(gossip) = 2
    /\ gossip[1].message_id = gossip[2].message_id
    /\ gossip[1].propagation_source # gossip[2].propagation_source
    /\ task["p2p"] = "select"
    /\ \A i, j \in DOMAIN dispatched :
          dispatched[i].message_id = dispatched[j].message_id => i = j

\* C22: the number of connected peers never exceeds config.p2p.max_peers.
C22_PeerSetBounded ==
    Cardinality(swarm.connections) <= config.p2p.max_peers

\* The network ids another node may run with.
OtherNetworkIds == {1, 2, 3, 7, 13, 31}

\* C23: once the swarm is initialised the node is subscribed to exactly four
\* topics, one for commerce blocks, one for security blocks, one for
\* transactions and one for attestations, each ending in the network id in
\* decimal; the four are distinct, and none of them is a topic of a node
\* with another network id.
C23_TopicsScopedByNetwork ==
    LET Kinds == { "omne/consensus/commerce/", "omne/consensus/security/",
                   "omne/transactions/", "omne/attestations/" }
        TopicOf(kind, id) == kind \o Decimal(id)
    IN  swarm.stored =>
          /\ Cardinality(swarm.topics) = 4
          /\ swarm.topics = { TopicOf(kind, config.network.id) : kind \in Kinds }
          /\ \A id \in OtherNetworkIds \ { config.network.id } :
                /\ swarm.topics \cap { TopicOf(kind, id) : kind \in Kinds } = {}
                /\ swarm.topics \cap Range(TopicNames(id)) = {}

\* A node of the private network (id 7) has initialised its swarm.
C23_Witness ==
    /\ swarm.stored
    /\ config.network.id = 7
    /\ "omne/attestations/7" \in swarm.topics
    /\ task["p2p"] = "select"

\* C29: init_swarm fails only before it dials (no address has been dialled
\* when the task has failed); once a dial has been attempted the swarm is
\* stored, every bootstrap address that parses has been dialled, those whose
\* dial failed among them, and the task is in its event loop.
C29_BootstrapFailureNotFatal ==
    /\ task["p2p"] = "failed" => swarm.dialled = << >> /\ ~swarm.stored
    /\ task["p2p"] \in {"select", "event", "done"} =>
          /\ swarm.stored
          /\ swarm.dialled = SelectSeq(config.p2p.bootstrap_peers, ParsesAsMultiaddr)
          /\ Range(swarm.warned) \subseteq Range(swarm.dialled)

\* The first bootstrap address could not be dialled and the second did not
\* parse; the third was dialled all the same and the event loop is running.
C29_Witness ==
    /\ swarm.stored
    /\ Len(config.p2p.bootstrap_peers) = 3
    /\ config.p2p.bootstrap_peers[2] = "boot.example:30303"
    /\ ~ParsesAsMultiaddr(config.p2p.bootstrap_peers[2])
    /\ swarm.warned = << "/ip4/10.0.0.7/tcp/30303" >>
    /\ swarm.dialled = << "/ip4/10.0.0.7/tcp/30303", "/ip4/127.0.0.1/tcp/30303" >>
    /\ task["p2p"] = "event"

\* C30: whatever the handler returned for an event, the loop selects again;
\* the loop is left only from select!, with the shutdown signal received.
C30_EventErrorsNotFatal ==
    [][ /\ task["p2p"] = "event" => task'["p2p"] \in {"event", "select"}
        /\ task["p2p"] = "select" /\ task'["p2p"] \notin {"select", "event"} =>
              task'["p2p"] = "done" /\ "p2p" \in pending ]_vars

\* The handler returned Err for a message; the loop then took the same
\* message again from another peer, and is back at select!.
C30_Witness ==
    /\ Len(gossip) = 2
    /\ gossip[1].result = "Err"
    /\ gossip[2].message_id = gossip[1].message_id
    /\ gossip[2].propagation_source # gossip[1].propagation_source
    /\ eventResult = "none"
    /\ task["p2p"] = "select"

\* C26: blocks_proposed + blocks_missed never exceeds the number of slot
\* evaluations, commerce and security, the scheduler has started.
C26_BlocksWithinEvaluations ==
    performance_metrics.blocks_proposed + performance_metrics.blocks_missed
        <= started["commerce"] + started["security"]

\* Evaluations of both layers have been started and have returned, the
\* latest with an error.
C26_Witness ==
    /\ started["commerce"] > 0
    /\ started["security"] > 0
    /\ inflight = [l \in Layers |-> 0]
    /\ lastResult = "Err"
    /\ performance_metrics.blocks_proposed + performance_metrics.blocks_missed
          <= started["commerce"] + started["security"]

\* C27: the revenue estimate is the sum of the terms of the enabled services:
\* gigabytes served (requests / 1000, rounded down) times the price per
\* gigabyte for OMP, transactions relayed times 10, transactions sponsored
\* times 5, jobs completed times 100 (units of 10^14 quar); a disabled
\* service contributes nothing whatever its counter, no service enabled gives
\* 0, and switching one service changes the estimate by that service's term.
C27_RevenueOfEnabledServices ==
    LET pm == performance_metrics
        Services == {"omp", "orc20_relayer", "paymaster", "oon"}
        Enabled(c, service) ==
            CASE service = "omp" -> c.omp.enable_omp
              [] service = "orc20_relayer" -> c.orc20_relayer.enable_relayer
              [] service = "paymaster" -> c.paymaster.enable_paymaster
              [] service = "oon" -> c.oon.enable_oon
        Term(service) ==
            CASE service = "omp" ->
                    (pm.omp_requests_served \div 1000) * config.omp.pricing_per_gb_quar
              [] service = "orc20_relayer" -> pm.orc20_txs_relayed * 10
              [] service = "paymaster" -> pm.paymaster_txs_sponsored * 5
              [] service = "oon" -> pm.oon_jobs_completed * 100
        Share(c, service) == IF Enabled(c, service) THEN Term(service) ELSE 0
        Toggled(service) ==
            CASE service = "omp" -> [config EXCEPT !.omp.enable_omp = ~@]
              [] service = "orc20_relayer" ->
                    [config EXCEPT !.orc20_relayer.enable_relayer = ~@]
              [] service = "paymaster" -> [config EXCEPT !.paymaster.enable_paymaster = ~@]
              [] service = "oon" -> [config EXCEPT !.oon.enable_oon = ~@]
    IN  ret.fn = "calculate_monthly_revenue_estimate" =>
          /\ ret.val = Share(config, "omp") + Share(config, "orc20_relayer")
                          + Share(config, "paymaster") + Share(config, "oon")
          /\ (\A service \in Services : ~Enabled(config, service)) => ret.val = 0
          /\ \A service \in Services :
                CalculateMonthlyRevenueEstimate(Toggled(service), pm) - ret.val
                    = IF Enabled(config, service) THEN -Term(service) ELSE Term(service)

\* The estimate of a validator with OMP and OON enabled and the relayer and
\* the paymaster disabled, all four counters above zero: two gigabytes and
\* two jobs are counted, the transactions are not.
C27_Witness ==
    /\ ret.fn = "calculate_monthly_revenue_estimate"
    /\ config.omp.enable_omp /\ config.oon.enable_oon
    /\ ~config.orc20_relayer.enable_relayer /\ ~config.paymaster.enable_paymaster
    /\ performance_metrics.omp_requests_served = 2500
    /\ performance_metrics.orc20_txs_relayed = 3
    /\ performance_metrics.paymaster_txs_sponsored = 7
    /\ performance_metrics.oon_jobs_completed = 2
    /\ ret.val = 2 * config.omp.pricing_per_gb_quar + 200

\* C28: a call of get_status leaves ConsensusState, PerformanceMetrics and
\* NetworkMetrics as they were, and the status it returns holds the epochs,
\* heights, stake and is_active of the state at the call.
C28_StatusReadOnly ==
    [][ ret' # ret /\ ret'.fn = "get_status" =>
          /\ state' = state
          /\ performance_metrics' = performance_metrics
          /\ network_metrics' = network_metrics
          /\ ret'.val.commerce_epoch = state.commerce_epoch
          /\ ret'.val.security_epoch = state.security_epoch
          /\ ret'.val.commerce_height = state.commerce_height
          /\ ret'.val.security_height = state.security_height
          /\ ret'.val.stake = state.stake
          /\ ret'.val.is_active = state.is_active ]_vars

\* get_status has returned the status of an active validator with 200 OMC at
\* stake.
C28_Witness ==
    /\ ret.fn = "get_status"
    /\ state.is_active
    /\ state.stake = 200
    /\ ret.val.stake = 200
    /\ ret.val.is_active

\* C25: no step of the node, a commerce or security slot, a gossip event or
\* a status query, lowers commerce_epoch, security_epoch, commerce_height or
\* security_height.
C25_EpochsAndHeightsNeverDecrease ==
    [][ /\ state'.commerce_epoch >= state.commerce_epoch
        /\ state'.security_epoch >= state.security_epoch
        /\ state'.commerce_height >= state.commerce_height
        /\ state'.security_height >= state.security_height ]_vars

\* Slots of both layers have been evaluated, one of them failing, two gossip
\* messages handled and the status queried.
C25_Witness ==
    /\ started["commerce"] > 1
    /\ started["security"] > 0
    /\ inflight = [l \in Layers |-> 0]
    /\ lastResult = "Err"
    /\ Len(gossip) = 2
    /\ task["p2p"] = "select"
    /\ ret.fn = "get_status"
    /\ ret.val.commerce_height = state.commerce_height

\* C31: format_duration renders s whole seconds as "<s>s" below a minute,
\* "<s/60>m <s%60>s" below an hour, "<s/3600>h <(s%3600)/60>m" below a day
\* and "<s/86400>d <(s%86400)/3600>h" from a day on; 30 gives "30s", 90
\* "1m 30s", 3661 "1h 1m" and 90061 "1d 1h".
C31_FormatDurationByMagnitude ==
    ret.fn = "format_duration" =>
        LET s == ret.args[1].secs
        IN  /\ s < 60 => ret.val = Decimal(s) \o "s"
            /\ 60 <= s /\ s < 3600 =>
                  ret.val = Decimal(s \div 60) \o "m " \o Decimal(s % 60) \o "s"
            /\ 3600 <= s /\ s < 86400 =>
                  ret.val = Decimal(s \div 3600) \o "h " \o Decimal((s % 3600) \div 60) \o "m"
            /\ s >= 86400 =>
                  ret.val = Decimal(s \div 86400) \o "d " \o Decimal((s % 86400) \div 3600) \o "h"
            /\ s = 30 => ret.val = "30s"
            /\ s = 60 => ret.val = "1m 0s"
            /\ s = 90 => ret.val = "1m 30s"
            /\ s = 3600 => ret.val = "1h 0m"
            /\ s = 3661 => ret.val = "1h 1m"
            /\ s = 86400 => ret.val = "1d 0h"
            /\ s = 90061 => ret.val = "1d 1h"

\* One day, one hour, one minute and one second, rendered "1d 1h".
C31_Witness ==
    /\ ret.fn = "format_duration"
    /\ ret.args[1].secs = 90061
    /\ ret.val = "1d 1h"

\* C32: validate_omne_address accepts exactly the strings that start with
\* "omne1", are 43 long and have only characters of the alphabet
\* 123456789abcdefghjkmnpqrstuvwxyz after the prefix, and those that start
\* with "0x", are 42 long and have only hexadecimal digits after the prefix.
C32_AddressAcceptedExactly ==
    ret.fn = "validate_omne_address" =>
        LET a == ret.args[1]
            Base32 == { "1", "2", "3", "4", "5", "6", "7", "8", "9", "a", "b", "c", "d",
                        "e", "f", "g", "h", "j", "k", "m", "n", "p", "q", "r", "s", "t",
                        "u", "v", "w", "x", "y", "z" }
            Hex == { "0", "1", "2", "3", "4", "5", "6", "7", "8", "9", "a", "b", "c", "d",
                     "e", "f", "A", "B", "C", "D", "E", "F" }
            Native == /\ Len(a) = 43
                      /\ SubSeq(a, 1, 5) = << "o", "m", "n", "e", "1" >>
                      /\ \A i \in 6..43 : a[i] \in Base32
            Legacy == /\ Len(a) = 42
                      /\ SubSeq(a, 1, 2) = << "0", "x" >>
                      /\ \A i \in 3..42 : a[i] \in Hex
        IN  /\ ret.val = (Native \/ Legacy)
            /\ a \in TestAddresses => (ret.val <=> Len(a) = 42 /\ a[42] = "8")

\* A native address of 43 characters has been accepted.
C32_Witness ==
    /\ ret.fn = "validate_omne_address"
    /\ Len(ret.args[1]) = 43
    /\ SubSeq(ret.args[1], 1, 5) = << "o", "m", "n", "e", "1" >>
    /\ ret.val = TRUE

\* C33: a call of update_network_metrics made 30 seconds or less after
\* last_update leaves NetworkMetrics as it was; one made later stores the
\* refreshed utilization (0.6) and validator count (55), the stake
\* requirement and the health computed from them, and the time of the call as
\* last_update; neither changes ConsensusState or PerformanceMetrics.
C33_MetricsUpdateCadence ==
    [][ ret'.fn = "update_network_metrics" /\ ret' # ret =>
          LET elapsed == now - network_metrics.last_update
              base    == config.network.chain_spec.min_validator_stake
              uptime  == CalculateUptimePercentage(performance_metrics)
              health  == network_metrics'.network_health
          IN  /\ state' = state
              /\ performance_metrics' = performance_metrics
              /\ elapsed <= 30 => network_metrics' = network_metrics
              /\ elapsed > 30 =>
                    /\ network_metrics'.network_utilization = 60
                    /\ network_metrics'.active_validators = 55
                    /\ network_metrics'.dynamic_stake_requirement =
                          CalculateDynamicStakeRequirement(60, 55, base)
                    /\ health.num * 3 * uptime.den
                          = (uptime.num + (100 + 90) * uptime.den) * health.den
                    /\ network_metrics'.last_update = now ]_vars

\* The metrics were refreshed at 31 s and a call at 61 s, thirty seconds
\* later, has left them alone.
C33_Witness ==
    /\ ret = [fn |-> "update_network_metrics", args |-> << 61 >>, val |-> "Ok"]
    /\ now = 61
    /\ network_metrics.last_update = 31
    /\ network_metrics.network_utilization = 60
    /\ network_metrics.active_validators = 55

\* C34: the cached dynamic_stake_requirement of a PoVERAValidator lies in
\* [15, 150], from PoVERAValidator::new onwards.
C34_CachedRequirementInRange ==
    /\ network_metrics.dynamic_stake_requirement >= 15
    /\ network_metrics.dynamic_stake_requirement <= 150

\* C35: process_request always answers with jsonrpc "2.0" and the request's
\* id, and sets exactly one of result and error: a version other than "2.0"
\* gives -32600 whatever the method, an unregistered method -32601, a failing
\* handler (block_by_height without a height or with one that is not a
\* non-negative integer) -32603, and otherwise the handler's value is the
\* result and there is no error.
C35_Registered ==
    { "validator_status", "consensus_status", "p2p_status", "network_info",
      "peer_list", "latest_block", "block_by_height", "health", "version" }

C35_ProcessRequestAnswers ==
    ret.fn = "process_request" =>
        LET rq == ret.args[1]
            rs == ret.val
            height == IF rq.params.some /\ Len(rq.params.v) > 0
                      THEN rq.params.v[1] ELSE JsonNull
            fails == rq.method = "block_by_height" /\ height.t # "PosInt"
        IN  /\ rs.jsonrpc = "2.0"
            /\ rs.id = rq.id
            /\ rs.result.some # rs.error.some
            /\ IF rq.jsonrpc # "2.0"
               THEN rs.error.some /\ rs.error.v.code = -32600
               ELSE IF rq.method \notin C35_Registered
               THEN rs.error.some /\ rs.error.v.code = -32601
               ELSE IF fails
               THEN rs.error.some /\ rs.error.v.code = -32603
               ELSE /\ rs.result.some
                    /\ ~rs.error.some
                    /\ rq.method = "block_by_height" => rs.result.v.height = height.n

\* An unknown method asked for with the wrong version is answered -32600, and
\* the request's id comes back.
C35_Witness ==
    /\ ret.fn = "process_request"
    /\ ret.args[1].jsonrpc = "1.0"
    /\ ret.args[1].method = "block_by_hash"
    /\ ret.args[1].id = Some(JsonValue("String", 0, "abc"))
    /\ ret.val.error.some
    /\ ret.val.error.v.code = -32600
    /\ ret.val.id = Some(JsonValue("String", 0, "abc"))

\* C36: no subsystem misses the shutdown broadcast: every task holds a
\* receiver from before it was spawned, so that, however the tasks' start-up
\* and the shutdown send interleave, once the signal is sent every task that
\* has not ended has it waiting in its receiver.
C36_NoTaskMissesShutdown ==
    /\ \A t \in TaskSet : task[t] # "unspawned" => t \in subscribed
    /\ mpc = "running" => TaskSet \subseteq subscribed
    /\ shutdownAt >= 0 =>
          \A t \in TaskSet : task[t] \notin {"done", "failed"} => t \in pending

\* The signal was sent before the P2P and RPC tasks had run at all, while
\* the consensus task was already in its loop; all three have it pending.
C36_Witness ==
    /\ shutdownAt >= 0
    /\ task["consensus"] = "select"
    /\ task["p2p"] = "spawned"
    /\ task["rpc"] = "spawned"
    /\ TaskSet \subseteq pending

\* C37: a subsystem task that fails on its own (the swarm cannot be set up,
\* the RPC listener cannot be bound) only ends: the step in which it fails
\* sends no shutdown signal and leaves the node and the other tasks where
\* they are; as long as no signal was sent no receiver holds one and
\* ValidatorNode::start is still waiting, and it leaves its wait only by the
\* step that receives the external signal and broadcasts it.
C37_FailedTaskOnlyEnds ==
    /\ [](shutdownAt = -1 => pending = {} /\ ~Waiting /\ mpc # "done")
    /\ [][ /\ \A t \in TaskSet :
                (task[t] # "failed" /\ task'[t] = "failed") =>
                    /\ shutdownAt' = shutdownAt
                    /\ pending' = pending
                    /\ subscribed' = subscribed
                    /\ mpc' = mpc
                    /\ \A u \in TaskSet \ {t} : task'[u] = task[u]
           /\ (mpc = "running" /\ mpc' # "running") =>
                    /\ shutdownAt = -1
                    /\ shutdownAt' = now
                    /\ pending' = subscribed
                    /\ task' = task ]_vars

\* The P2P and RPC tasks have both failed; no signal was sent, the node is
\* waiting for one, and the consensus task has evaluated a slot of each layer
\* and is back in its loop.
C37_Witness ==
    /\ task["p2p"] = "failed"
    /\ task["rpc"] = "failed"
    /\ task["consensus"] = "select"
    /\ started["commerce"] >= 1
    /\ started["security"] >= 1
    /\ mpc = "running"
    /\ shutdownAt = -1
    /\ pending = {}

\* C38: commerce and security slot evaluations are serialized in one loop:
\* the two are never in progress together, and while a slot of one layer is
\* being evaluated no evaluation of the other layer starts and the shutdown
\* signal is not acted on (the task does not end and the signal stays in its
\* receiver) until that evaluation has returned.
C38_EvaluationsSerialized ==
    /\ [](inflight["commerce"] + inflight["security"] <= 1)
    /\ [](\A l \in Layers : inflight[l] > 0 => task["consensus"] = l)
    /\ [][ \A l \in Layers :
              inflight[l] > 0 =>
                  /\ \A k \in Layers : started'[k] = started[k]
                  /\ task'["consensus"] \in {l, "select"}
                  /\ task'["consensus"] = "select" => inflight'[l] = 0
                  /\ "consensus" \in pending => "consensus" \in pending' ]_vars

\* A commerce slot is being evaluated while a security tick is due and the
\* shutdown signal is waiting in the consensus task's receiver.
C38_Witness ==
    /\ task["consensus"] = "commerce"
    /\ inflight["commerce"] = 1
    /\ TickReady("security")
    /\ timer["security"] <= MaxTime
    /\ "consensus" \in pending
    /\ shutdownAt >= 0

\* C39: the stake validation of start-up (the static check of start_validator
\* followed by the dynamic check of ValidatorNode::new) rejects exactly when
\* validator mode is enabled and the declared stake is below 20 or below
\* calculate_dynamic_stake_requirement(0.5, 50, min_validator_stake of the
\* loaded configuration); in observer mode no stake, 0 included, is rejected.
C39_Below(stake, c) ==
    \/ stake < 20
    \/ stake < CalculateDynamicStakeRequirement(50, 50, c.network.chain_spec.min_validator_stake)

C39_StakeRejectedExactly ==
    /\ [](mpc \notin {"load_config", "failed"} =>
              /\ config.validator.is_validator = cli.validator
              /\ config.validator.validator_stake = cli.stake)
    /\ [](mpc \notin {"load_config", "check_stake", "node_new", "failed"} =>
              ~(cli.validator /\ C39_Below(cli.stake, config)))
    /\ [][ /\ (mpc = "check_stake" /\ mpc' # mpc) =>
                 /\ mpc' = "failed" => cli.validator /\ C39_Below(cli.stake, config)
                 /\ mpc' # "failed" => mpc' = "node_new"
           /\ (mpc = "node_new" /\ mpc' # mpc) =>
                 /\ mpc' = "failed" <=> cli.validator /\ C39_Below(cli.stake, config)
                 /\ mpc' # "failed" => mpc' = "init_directories" ]_vars

\* An observer that declared a stake of 0 has started: its tasks are spawned.
C39_Witness ==
    /\ ~cli.validator
    /\ cli.stake = 0
    /\ mpc = "running"
    /\ \A t \in TaskSet : task[t] = "spawned"

\* A validator with a stake of at least 20 that is below the dynamic
\* requirement has been refused by ValidatorNode::new.
C39_WitnessRejected ==
    /\ cli.validator
    /\ cli.stake >= 20
    /\ cli.stake < RequiredStake(config)
    /\ mpc = "failed"

====
